---------------------------- MODULE Spec2Model ----------------------------
(***************************************************************************)
(* Model of the Azure GenAI Eco-Monitor dashboard                          *)
(* (src/Consolidated/consolidated1.py): one script run ("refresh") that    *)
(* builds the deployment inventory, pulls usage metrics and billing rows,  *)
(* derives energy / carbon / SEK columns and builds the per-model and      *)
(* per-project summaries.                                                  *)
(*                                                                         *)
(* Number representation.  The program computes with floats; the model     *)
(* uses exact fixed point:                                                 *)
(*   - energy (kWh, CARBON_FACTORS) in units of 1e-7 kWh,                  *)
(*   - carbon (Carbon_g) in units of 1e-7 g (= energy unit x g/kWh),       *)
(*   - exchange rates in tenths, CostSEK in tenths of a krona.             *)
(* Text.  A model name is a tuple of one-character strings, so that        *)
(* lower() and the substring tests are computed.  A resource id is a tuple *)
(* of tokens in which "/" is the separator, so that split('/') is          *)
(* computed.  Every other label is a TLA+ string.                          *)
(***************************************************************************)
EXTENDS Integers, Sequences, FiniteSets, TLC

VARIABLES
    pc,                 \* position of the script run
    mode,               \* st.radio "Mode"
    selected_region,    \* st.selectbox "Region"
    usd_rate,           \* st.number_input "USD to SEK Rate" (tenths)
    sub_id,             \* st.text_input "Subscription ID"
    credential,         \* what get_azure_credentials returned
    dept_responses,     \* the answers of the deployments listing, per account
    final_inventory,    \* list of inventory entries
    debug_logs,         \* logs of the discovery
    errors,             \* errors of the metrics fetch
    cost_response,      \* the response of the Cost Management query
    cost_error,         \* error_msg of the cost fetch
    requests,           \* the calls sent out, in the order sent
    current_step,       \* progress counter of the metrics fetch
    df_raw,             \* usage rows
    df_cost,            \* cost rows
    total_kwh, total_co2, total_cost_sek,
    tree_days,          \* total_co2 / GRAMS_CO2_PER_TREE_DAY (thousandths)
    df_model,           \* per-model summary
    df_project_summary, \* per-project summary
    df_export,          \* the table of the CSV export (PowerBI.py)
    show_debug,         \* st.checkbox "Show Debug Logs"
    messages,           \* the status messages the run showed the user
    shown               \* what the run rendered in the main panel

vars == <<pc, mode, selected_region, usd_rate, sub_id, credential,
          dept_responses, final_inventory, debug_logs, errors, cost_response, cost_error,
          df_raw, df_cost, total_kwh, total_co2, total_cost_sek, tree_days,
          df_model, df_project_summary, df_export, show_debug, messages, shown,
          requests, current_step>>

None == "None"

(***************************************************************************)
(* Sequence helpers                                                        *)
(***************************************************************************)
Range(s) == {s[i] : i \in 1..Len(s)}

RECURSIVE SumSeq(_)
SumSeq(s) == IF s = <<>> THEN 0 ELSE Head(s) + SumSeq(Tail(s))

RECURSIVE Flatten(_)
Flatten(ss) == IF ss = <<>> THEN <<>> ELSE Head(ss) \o Flatten(Tail(ss))

\* keys of s in order of first appearance (the groups of a groupby)
RECURSIVE Unique(_)
Unique(s) ==
    IF s = <<>> THEN <<>>
    ELSE LET r == Unique(SubSeq(s, 1, Len(s) - 1))
         IN  IF s[Len(s)] \in Range(r) THEN r ELSE Append(r, s[Len(s)])

\* all sequences over S of length at most n
SeqsUpTo(S, n) == UNION {[1..k -> S] : k \in 0..n}

(***************************************************************************)
(* Text: lower(), "x in s", split('/')                                     *)
(***************************************************************************)
UpperChars == <<"A","B","C","D","E","F","G","H","I","J","K","L","M",
                "N","O","P","Q","R","S","T","U","V","W","X","Y","Z">>
LowerChars == <<"a","b","c","d","e","f","g","h","i","j","k","l","m",
                "n","o","p","q","r","s","t","u","v","w","x","y","z">>

LowerChar(c) ==
    IF \E i \in 1..26 : UpperChars[i] = c
    THEN LowerChars[CHOOSE i \in 1..26 : UpperChars[i] = c]
    ELSE c

\* str.lower()
Lower(s) == [i \in 1..Len(s) |-> LowerChar(s[i])]

\* sub in s
Contains(s, sub) ==
    \E i \in 0..(Len(s) - Len(sub)) : SubSeq(s, i + 1, i + Len(sub)) = sub

\* str.split('/'): the list of the segments between the separators
RECURSIVE SplitFrom(_, _, _)
SplitFrom(x, cur, acc) ==
    IF x = <<>> THEN Append(acc, cur)
    ELSE IF Head(x) = "/" THEN SplitFrom(Tail(x), "", Append(acc, cur))
    ELSE SplitFrom(Tail(x), cur \o Head(x), acc)

Split(x) == SplitFrom(x, "", <<>>)

(***************************************************************************)
(* Constants of the program                                                *)
(***************************************************************************)
Regions == {"Global Average", "US East (Virginia)", "US West (California)",
            "Europe (Ireland)", "Europe (Sweden)", "Asia (average)"}

\* Grid intensity (gCO2/kWh)
REGION_INTENSITY ==
    [r \in Regions |->
        CASE r = "Global Average"       -> 475
          [] r = "US East (Virginia)"   -> 350
          [] r = "US West (California)" -> 200
          [] r = "Europe (Ireland)"     -> 280
          [] r = "Europe (Sweden)"      -> 20
          [] r = "Asia (average)"       -> 550]

FactorKeys == {"standard_text", "reasoning_text", "image_gen", "embedding"}

\* Energy factors, in 1e-7 kWh: per 1k tokens, image_gen per image
CARBON_FACTORS ==
    [k \in FactorKeys |->
        CASE k = "standard_text"  -> 4000
          [] k = "reasoning_text" -> 15000
          [] k = "image_gen"      -> 500000
          [] k = "embedding"      -> 1000]

TableCurrencies == {"USD", "EUR", "GBP", "SEK"}

\* Exchange rates to SEK, in tenths
EXCHANGE_RATES_TO_SEK ==
    [c \in TableCurrencies |->
        CASE c = "USD" -> 108
          [] c = "EUR" -> 115
          [] c = "GBP" -> 135
          [] c = "SEK" -> 10]

\* dict.get(key, default) on the exchange table
RateGet(curr, default) ==
    IF curr \in TableCurrencies THEN EXCHANGE_RATES_TO_SEK[curr] ELSE default

AGGREGATED == "All Models (Aggregated)"

\* Tree absorption per day, 57.5 g in units of 1e-7 g
GRAMS_CO2_PER_TREE_DAY == 575000000

(***************************************************************************)
(* Model names                                                             *)
(***************************************************************************)
s_dall      == <<"d","a","l","l">>
s_o1        == <<"o","1">>
s_reasoning == <<"r","e","a","s","o","n","i","n","g">>
s_embedding == <<"e","m","b","e","d","d","i","n","g">>
s_unknown   == <<"u","n","k","n","o","w","n">>
s_Manual    == <<"M","a","n","u","a","l">>
s_gpt4      == <<"g","p","t","-","4">>
s_dalle3    == <<"d","a","l","l","-","e","-","3">>
s_o1preview == <<"o","1","-","p","r","e","v","i","e","w">>
s_ada002    == <<"t","e","x","t","-","e","m","b","e","d","d","i","n","g",
                 "-","a","d","a","-","0","0","2">>

(***************************************************************************)
(* Inventory build: the usage type of a deployment                         *)
(***************************************************************************)
\* a plausible slip: the embedding rule tested before the image rule
ModelTypeEmbeddingFirst(model_name) ==
    LET m_name == Lower(model_name)
    IN  IF Contains(m_name, s_embedding) THEN "embedding"
        ELSE IF Contains(m_name, s_dall) THEN "image"
        ELSE IF Contains(m_name, s_o1) \/ Contains(m_name, s_reasoning)
             THEN "reasoning"
        ELSE "text"

\* m_type of discover_resources_and_deployments
ModelType(model_name) ==
    LET m_name == Lower(model_name)
    IN  IF Contains(m_name, s_dall) THEN "image"
        ELSE IF Contains(m_name, s_o1) \/ Contains(m_name, s_reasoning)
             THEN "reasoning"
        ELSE IF Contains(m_name, s_embedding) THEN "embedding"
        ELSE "text"

\* the inventory entries of one account, given its deployment listing
AccountEntries(acct, listing) ==
    IF listing = <<>>
    THEN << [id |-> acct.id, name |-> acct.name, group |-> acct.group,
             project |-> acct.project, tags |-> acct.tags,
             deployment_name |-> AGGREGATED, model_name |-> s_unknown,
             type |-> "text"] >>
    ELSE [i \in 1..Len(listing) |->
            [id |-> acct.id, name |-> acct.name, group |-> acct.group,
             project |-> acct.project, tags |-> acct.tags,
             deployment_name |-> listing[i].deployment_name,
             model_name |-> listing[i].model_name,
             type |-> ModelType(listing[i].model_name)]]


(***************************************************************************)
(* get_deployments.  The answer of the deployments REST call is a record:  *)
(* raised (the token request or the GET raised), status_code, and value,   *)
(* the items of the body.  An item carries its name and its model name     *)
(* (None when the body has none); an item whose properties are null makes  *)
(* the parsing raise, and the deployments parsed so far are returned.      *)
(***************************************************************************)
DeploymentsAnswer(raised, status_code, value) ==
    [raised |-> raised, status_code |-> status_code, value |-> value]

\* an item with a model name, one without, one with null properties
Item(name, model) ==
    [name |-> name, model |-> model, has_model |-> TRUE, properties_null |-> FALSE]
NamelessItem(name) ==
    [name |-> name, model |-> <<>>, has_model |-> FALSE, properties_null |-> FALSE]
BrokenItem(name) ==
    [name |-> name, model |-> <<>>, has_model |-> FALSE, properties_null |-> TRUE]

\* the loop over the items, up to the first item that raises
RECURSIVE ParseItems(_)
ParseItems(items) ==
    IF items = <<>> THEN <<>>
    ELSE IF Head(items).properties_null THEN <<>>
    ELSE << [deployment_name |-> Head(items).name,
             model_name |-> IF Head(items).has_model THEN Head(items).model
                            ELSE s_unknown] >>
         \o ParseItems(Tail(items))

\* a plausible slip: a failed listing reported as one nameless deployment
get_deployments_failure_entry(resp) ==
    IF resp.raised \/ resp.status_code # 200
    THEN << [deployment_name |-> "", model_name |-> s_unknown] >>
    ELSE ParseItems(resp.value)

get_deployments(resp) ==
    IF resp.raised THEN <<>>
    ELSE IF resp.status_code = 200 THEN ParseItems(resp.value)
    ELSE <<>>

(***************************************************************************)
(* The environment: what the resource listing, the deployment listing,     *)
(* the metrics API, the cost API and the random generator can return       *)
(***************************************************************************)
Modes == {"Demo Data", "Auto-Discovery", "Manual Input"}

\* Regions and USD rates the user picks in the sidebar in the pipeline runs
SelectableRegions == {"Global Average", "Europe (Sweden)"}
UsdRates == {100}

ResPath(rg, provider, kindseg, acct) ==
    <<"/", "subscriptions", "/", "sub", "/", "resourceGroups", "/", rg, "/",
      "providers", "/", provider, "/", kindseg, "/", acct>>

id_A == ResPath("rg1", "Microsoft.CognitiveServices", "accounts", "acctA")
id_B == ResPath("rg2", "Microsoft.CognitiveServices", "accounts", "acctB")
\* the id of account A as a billing row may spell it (lower-cased)
id_A_lower ==
    <<"/", "subscriptions", "/", "sub", "/", "resourcegroups", "/", "rg1", "/",
      "providers", "/", "microsoft.cognitiveservices", "/", "accounts", "/",
      "accta">>

NoTags == [DigitalProduct |-> None, Project |-> None, Application |-> None]

res_A == [id |-> id_A, name |-> "acctA", kind |-> "OpenAI",
          tags |-> [NoTags EXCEPT !.Project = "projX"]]
res_B == [id |-> id_B, name |-> "acctB", kind |-> "CognitiveServices",
          tags |-> NoTags]
res_other == [id |-> ResPath("rg2", "Microsoft.CognitiveServices", "accounts",
                             "speech1"),
              name |-> "speech1", kind |-> "SpeechServices", tags |-> NoTags]

\* what resource_client.resources.list can return
ResourceListings == {<<>>, <<res_A>>, <<res_B>>, <<res_A, res_B>>,
                     <<res_other>>, <<res_A, res_other, res_B>>}

d_gpt4   == [deployment_name |-> "dep-gpt4", model_name |-> s_gpt4]
d_dalle3 == [deployment_name |-> "dep-dalle", model_name |-> s_dalle3]

\* the deployments an account can have
DeploymentListings == {<<>>, <<d_gpt4>>, <<d_gpt4, d_dalle3>>}

\* the answer of a deployments call that succeeds
AnswerOf(listing) ==
    DeploymentsAnswer(FALSE, 200,
        [i \in 1..Len(listing) |->
            Item(listing[i].deployment_name, listing[i].model_name)])

\* the answers when the management API works
DeploymentAnswers == {AnswerOf(l) : l \in DeploymentListings}

\* the answers when it can also fail: the call raises, a non-200 status
\* (with or without a body), an item with null properties, an item with no
\* model name
FaultyDeploymentAnswers ==
    {AnswerOf(<<>>), AnswerOf(<<d_gpt4, d_dalle3>>),
     DeploymentsAnswer(TRUE, 200, AnswerOf(<<d_gpt4>>).value),
     DeploymentsAnswer(FALSE, 404, <<>>),
     DeploymentsAnswer(FALSE, 500, AnswerOf(<<d_gpt4>>).value),
     DeploymentsAnswer(FALSE, 200, <<Item("dep-gpt4", s_gpt4), BrokenItem("dep-x")>>),
     DeploymentsAnswer(FALSE, 200, <<BrokenItem("dep-x"), Item("dep-gpt4", s_gpt4)>>),
     DeploymentsAnswer(FALSE, 200, <<NamelessItem("dep-x")>>)}

MetricNames == <<"ProcessedPromptTokens", "GeneratedTokens", "GeneratedImages">>
TimeStamps  == <<1>>

\* data.total of one metrics sample: null, or a number
NullTotal == [null |-> TRUE, v |-> 0]
Total(n) == [null |-> FALSE, v |-> n]
SampleTotals == {NullTotal, Total(0), Total(-1), Total(2)}

\* at most this many samples of a metrics fetch carry a positive total
MaxSamples == 2

\* at most this many rows in a cost API response
MaxCostRows == 1

CostCurrencies == {"SEK", "USD"}
CostAmounts    == {100}

(***************************************************************************)
(* discover_resources_and_deployments                                      *)
(***************************************************************************)
Truthy(v) == v # None /\ v # ""

KindMatches(kind) == kind \in {"OpenAI", "CognitiveServices"}

\* project_name = tags.get('DigitalProduct') or tags.get('Project')
\*                or tags.get('Application') or rg
ProjectOf(tags, rg) ==
    IF Truthy(tags.DigitalProduct) THEN tags.DigitalProduct
    ELSE IF Truthy(tags.Project) THEN tags.Project
    ELSE IF Truthy(tags.Application) THEN tags.Application
    ELSE rg

FoundAccount(res) ==
    LET rg == Split(res.id)[5]
    IN  [id |-> res.id, name |-> res.name, group |-> rg,
         project |-> ProjectOf(res.tags, rg), tags |-> res.tags]

FoundOne(res) == IF KindMatches(res.kind) THEN <<FoundAccount(res)>> ELSE <<>>

found_accounts_list(res_iter) == Flatten([i \in 1..Len(res_iter) |-> FoundOne(res_iter[i])])

\* the inventory, given the accounts found and each account's listing
RECURSIVE BuildInventory(_, _)
BuildInventory(accts, listings) ==
    IF accts = <<>> THEN <<>>
    ELSE AccountEntries(Head(accts), Head(listings))
         \o BuildInventory(Tail(accts), Tail(listings))

(***************************************************************************)
(* fetch_detailed_metrics                                                  *)
(***************************************************************************)
\* account ids in order of first appearance (keys of grouped_inventory)
GroupedIds(inventory_list) == Unique([i \in 1..Len(inventory_list) |-> inventory_list[i].id])

\* "if data.total and data.total > 0"
KeepsSample(total) == ~total.null /\ total.v # 0 /\ total.v > 0

\* a plausible slip: the Type of a row decided again from its metric
DeploymentRowsTypeByMetric(dept, resp) ==
    LET OneSample(m, t) ==
            IF KeepsSample(resp[m][t])
            THEN << [TimeStamp |-> TimeStamps[t], Account |-> dept.name,
                     ResourceId |-> dept.id, Project |-> dept.project,
                     Deployment |-> dept.deployment_name,
                     Model |-> dept.model_name,
                     Type |-> IF MetricNames[m] = "GeneratedImages"
                              THEN "image" ELSE dept.type,
                     Metric |-> MetricNames[m], Value |-> resp[m][t].v] >>
            ELSE <<>>
        RECURSIVE OverT(_, _)
        OverT(m, t) == IF t > Len(TimeStamps) THEN <<>>
                       ELSE OneSample(m, t) \o OverT(m, t + 1)
        RECURSIVE OverM(_)
        OverM(m) == IF m > Len(MetricNames) THEN <<>>
                    ELSE OverT(m, 1) \o OverM(m + 1)
    IN  OverM(1)

\* the rows appended for one deployment: resp[m][t] is data.total of metric m
\* at time stamp t
DeploymentRows(dept, resp) ==
    LET OneSample(m, t) ==
            IF KeepsSample(resp[m][t])
            THEN << [TimeStamp |-> TimeStamps[t], Account |-> dept.name,
                     ResourceId |-> dept.id, Project |-> dept.project,
                     Deployment |-> dept.deployment_name,
                     Model |-> dept.model_name, Type |-> dept.type,
                     Metric |-> MetricNames[m], Value |-> resp[m][t].v] >>
            ELSE <<>>
        RECURSIVE OverT(_, _)
        OverT(m, t) == IF t > Len(TimeStamps) THEN <<>>
                       ELSE OneSample(m, t) \o OverT(m, t + 1)
        RECURSIVE OverM(_)
        OverM(m) == IF m > Len(MetricNames) THEN <<>>
                    ELSE OverT(m, 1) \o OverM(m + 1)
    IN  OverM(1)

\* the inventory entries in the order the fetch visits them: account by
\* account, each account's deployments in inventory order
VisitOrder(inventory_list) ==
    LET ids == GroupedIds(inventory_list)
        OfAccount(a) == SelectSeq(inventory_list, LAMBDA e : e.id = a)
    IN  Flatten([i \in 1..Len(ids) |-> OfAccount(ids[i])])

\* An exception of client.metrics.list: fail is NoFailure, or names the
\* account, the call of that account that raises (at = 1 for its first
\* deployment) and the text of the exception.
NoFailure == [account |-> <<>>, at |-> 0, text |-> ""]
Failure(account, at, text) == [account |-> account, at |-> at, text |-> text]

\* the exception texts: str(e) contains "BadRequest", or does not
ExceptionTexts == {"BadRequest", "Timeout"}

\* the place of visit[i] among the deployments of its account
PlaceInAccount(visit, i) == Cardinality({j \in 1..i : visit[j].id = visit[i].id})

\* the call for visit[i] is made and returns
Answered(visit, i, fail) ==
    \/ fail.at = 0
    \/ visit[i].id # fail.account
    \/ PlaceInAccount(visit, i) < fail.at

\* data_rows: the rows of the calls that returned
MetricRows(visit, resps, fail) ==
    Flatten([i \in 1..Len(visit) |->
                IF Answered(visit, i, fail) THEN DeploymentRows(visit[i], resps[i])
                ELSE <<>>])

\* a plausible slip: every exception is recorded, "BadRequest" ones too
MetricErrorsAll(fail) ==
    IF fail.at = 0 THEN <<>>
    ELSE <<"Error " \o Split(fail.account)[Len(Split(fail.account))] \o ": " \o fail.text>>

\* errors: one entry for the account whose call raised, unless the text of
\* the exception contains "BadRequest"
MetricErrors(fail) ==
    IF fail.at = 0 \/ fail.text = "BadRequest" THEN <<>>
    ELSE <<"Error " \o Split(fail.account)[Len(Split(fail.account))] \o ": " \o fail.text>>

\* the failures a fetch over the inventory can meet: none, or one account
\* whose n-th call raises
MetricFailures(inventory_list) ==
    {NoFailure} \cup
    {Failure(inventory_list[i].id, PlaceInAccount(inventory_list, i), text) :
        i \in 1..Len(inventory_list), text \in ExceptionTexts}

(***************************************************************************)
(* fetch_actual_costs.  The answer of the Cost Management query is a       *)
(* record: raised (the token request or the POST raised), status_code,     *)
(* columns (the column names of the body) and rows (each row a tuple in    *)
(* the order of the columns).                                              *)
(***************************************************************************)
\* the ids a billing row can carry, given the ids asked for
BilledIds(resource_ids) ==
    resource_ids \cup (IF id_A \in resource_ids THEN {id_A_lower} ELSE {})

CostAnswer(raised, status_code, columns, rows) ==
    [raised |-> raised, status_code |-> status_code, columns |-> columns,
     rows |-> rows]

\* no query made yet
NoAnswer == CostAnswer(FALSE, 0, <<>>, <<>>)

\* the column layouts of a body
ColsFull    == <<"Cost", "UsageDate", "ResourceId", "Currency">>
ColsBilling == <<"Cost", "UsageDate", "ResourceId", "BillingCurrency">>
ColsNoCurr  == <<"Cost", "UsageDate", "ResourceId">>
ColsBare    == <<"Cost", "ResourceId">>

\* one row of a body under a layout
RawRow(columns, cost_val, res_id, curr) ==
    [i \in 1..Len(columns) |->
        CASE columns[i] = "Cost" -> cost_val
          [] columns[i] = "UsageDate" -> 1
          [] columns[i] = "ResourceId" -> res_id
          [] OTHER -> curr]

\* end_date = datetime.utcnow(), as a day number
end_date == 1

\* col_map.get(name): the 1-based position of the column, 0 for None
ColGet(columns, name) ==
    IF \E i \in 1..Len(columns) : columns[i] = name
    THEN CHOOSE i \in 1..Len(columns) :
            columns[i] = name /\ \A j \in (i + 1)..Len(columns) : columns[j] # name
    ELSE 0

\* col_map.get(name, default), default a 1-based position
ColGetOr(columns, name, default) ==
    IF ColGet(columns, name) = 0 THEN default ELSE ColGet(columns, name)

\* one parsed row of the cost response
CostRow(res_id, cost_val, curr) ==
    [Date |-> 1, ResourceId |-> res_id, ActualCost |-> cost_val,
     OriginalCurrency |-> curr]

\* a plausible slip: no currency column read as SEK
ParseCostRowDefaultSEK(columns, r) ==
    LET curr_idx == IF ColGet(columns, "Currency") = 0
                    THEN ColGet(columns, "BillingCurrency")
                    ELSE ColGet(columns, "Currency")
        date_idx == ColGet(columns, "UsageDate")
    IN  [Date |-> IF date_idx # 0 THEN r[date_idx] ELSE end_date,
         ResourceId |-> r[ColGetOr(columns, "ResourceId", 2)],
         ActualCost |-> r[ColGetOr(columns, "Cost", 1)],
         OriginalCurrency |-> IF curr_idx # 0 THEN r[curr_idx] ELSE "SEK"]

\* the body of the loop over the rows
ParseCostRow(columns, r) ==
    LET curr_idx == IF ColGet(columns, "Currency") = 0
                    THEN ColGet(columns, "BillingCurrency")
                    ELSE ColGet(columns, "Currency")
        date_idx == ColGet(columns, "UsageDate")
    IN  [Date |-> IF date_idx # 0 THEN r[date_idx] ELSE end_date,
         ResourceId |-> r[ColGetOr(columns, "ResourceId", 2)],
         ActualCost |-> r[ColGetOr(columns, "Cost", 1)],
         OriginalCurrency |-> IF curr_idx # 0 THEN r[curr_idx] ELSE "USD"]

\* parsing row r raises IndexError: the row is shorter than a position read
RowRaises(columns, r) ==
    \/ ColGetOr(columns, "Cost", 1) > Len(r)
    \/ ColGetOr(columns, "ResourceId", 2) > Len(r)
    \/ ColGet(columns, "Currency") > Len(r)
    \/ (ColGet(columns, "Currency") = 0 /\ ColGet(columns, "BillingCurrency") > Len(r))
    \/ ColGet(columns, "UsageDate") > Len(r)

\* the rows in front of the first one that raises
ParsedBeforeFailure(columns, rows) ==
    LET bad == {i \in 1..Len(rows) : RowRaises(columns, rows[i])}
    IN  IF bad = {} THEN rows
        ELSE SubSeq(rows, 1, (CHOOSE i \in bad : \A j \in bad : i <= j) - 1)

\* fetch_actual_costs: the cost rows and error_msg, given the answer.  An
\* exception while a row is parsed ends the loop; the rows appended before
\* it are returned with the message.
fetch_actual_costs(resp) ==
    IF resp.raised
    THEN [rows |-> <<>>, error_msg |-> "Failed to fetch costs: connection error"]
    ELSE IF resp.status_code = 200
    THEN LET good == ParsedBeforeFailure(resp.columns, resp.rows)
         IN  [rows |-> [i \in 1..Len(good) |-> ParseCostRow(resp.columns, good[i])],
              error_msg |-> IF Len(good) = Len(resp.rows) THEN None
                            ELSE "Failed to fetch costs: list index out of range"]
    ELSE IF resp.status_code = 403
    THEN [rows |-> <<>>,
          error_msg |-> "Permission Denied: Your account does not have 'Cost Management Reader' access."]
    ELSE [rows |-> <<>>, error_msg |-> "Cost API Error"]

\* the answers under one layout
CostAnswersUnder(columns, resource_ids) ==
    {CostAnswer(FALSE, 200, columns, rows) :
        rows \in SeqsUpTo({RawRow(columns, a, i, c) :
                              i \in BilledIds(resource_ids),
                              a \in CostAmounts, c \in CostCurrencies},
                          MaxCostRows)}

\* the answers when the Cost Management API works
CostResponses(resource_ids) == CostAnswersUnder(ColsFull, resource_ids)

\* a body whose second row is too short to be parsed
TruncatedAnswers(resource_ids) ==
    {CostAnswer(FALSE, 200, ColsFull,
                <<RawRow(ColsFull, a, i, c), <<a>> >>) :
        i \in resource_ids, a \in CostAmounts, c \in {"SEK"}}

\* the answers when it can also fail: the call raises, 403, another status,
\* a body with a row that cannot be parsed
FaultyCostResponses(resource_ids) ==
    CostResponses(resource_ids)
    \cup {CostAnswer(TRUE, 200, <<>>, <<>>), CostAnswer(FALSE, 403, <<>>, <<>>),
          CostAnswer(FALSE, 500, <<>>, <<>>)}
    \cup TruncatedAnswers(resource_ids)

\* the answers under every column layout
LayoutCostResponses(resource_ids) ==
    CostAnswersUnder(ColsFull, resource_ids)
    \cup CostAnswersUnder(ColsBilling, resource_ids)
    \cup CostAnswersUnder(ColsNoCurr, resource_ids)
    \cup CostAnswersUnder(ColsBare, resource_ids)

(***************************************************************************)
(* generate_demo_data_detailed                                             *)
(***************************************************************************)
projects ==
    << [name |-> "VG-AZ-109460-SDAI-LABUSER", model |-> s_gpt4, type |-> "text",
        res_name |-> "ai-res-01"],
       [name |-> "113527-volvogpt", model |-> s_gpt4, type |-> "text",
        res_name |-> "ai-res-02"],
       [name |-> "rd-usecases", model |-> s_dalle3, type |-> "image",
        res_name |-> "ai-res-03"] >>

DemoResourceId(p) ==
    ResPath(p.name, "Microsoft.CognitiveServices", "accounts", p.res_name)

\* hours of the day of the generated time stamps
DemoHours == {3, 12}

\* int(random.gauss(500, 100) * hour_mod), int(random.gauss(200, 50) * hour_mod)
\* and int(random.random() * 5 * hour_mod): the values the draws can take
DemoPrompts == {0, 1000}
DemoGens    == {-1, 0, 500}
DemoImages  == {0, 2}
\* random.uniform(50, 500)
DemoCosts   == {50, 500}

hour_mod(hour) == IF 9 <= hour /\ hour <= 17 THEN 10 ELSE 1

DemoRow(date, p, type, metric, val) ==
    [TimeStamp |-> date, Model |-> p.model, Type |-> type, Metric |-> metric,
     Value |-> val, Deployment |-> "dep-1", ResourceId |-> DemoResourceId(p),
     Account |-> p.res_name, Project |-> p.name]

\* the rows of one project at one time stamp; draw = [img, prompts, gens]
DemoProjectRows(date, p, draw) ==
    IF p.type = "image"
    THEN LET val == IF hour_mod(date) > 1 THEN draw.img ELSE 0
         IN  IF val > 0
             THEN <<DemoRow(date, p, "image", "GeneratedImages", val)>>
             ELSE <<>>
    ELSE IF draw.prompts > 0
         THEN <<DemoRow(date, p, "text", "ProcessedPromptTokens", draw.prompts),
                DemoRow(date, p, "text", "GeneratedTokens", draw.gens)>>
         ELSE <<>>

DemoDraws == [img : DemoImages, prompts : DemoPrompts, gens : DemoGens]

DemoUsage(date, draws) ==
    DemoProjectRows(date, projects[1], draws[1])
    \o DemoProjectRows(date, projects[2], draws[2])
    \o DemoProjectRows(date, projects[3], draws[3])

DemoCost(amounts) ==
    [i \in 1..Len(projects) |->
        [Date |-> 1, ActualCost |-> amounts[i], OriginalCurrency |-> "SEK",
         ResourceId |-> DemoResourceId(projects[i])]]


(***************************************************************************)
(* Processing: derived columns                                             *)
(***************************************************************************)
\* a plausible slip: the image factor scaled per 1000 like the token factors
calc_kwh_image_per_1000(row) ==
    LET factor == IF row.Type = "image" THEN CARBON_FACTORS["image_gen"]
                  ELSE IF row.Type = "reasoning" THEN CARBON_FACTORS["reasoning_text"]
                  ELSE IF row.Type = "embedding" THEN CARBON_FACTORS["embedding"]
                  ELSE CARBON_FACTORS["standard_text"]
    IN  (row.Value * factor) \div 1000

\* a plausible slip: the energy added to a kWh the row already carries
calc_kwh_accumulating(row) ==
    (IF "kWh" \in DOMAIN row THEN row.kWh ELSE 0)
    + (IF row.Type = "image" THEN row.Value * CARBON_FACTORS["image_gen"]
       ELSE LET factor == IF row.Type = "reasoning" THEN CARBON_FACTORS["reasoning_text"]
                          ELSE IF row.Type = "embedding" THEN CARBON_FACTORS["embedding"]
                          ELSE CARBON_FACTORS["standard_text"]
            IN  (row.Value * factor) \div 1000)

\* calc_kwh(row): (Value / 1000) * factor is exact in the 1e-7 kWh unit
\* because every per-1k factor is a multiple of 1000 units
calc_kwh(row) ==
    IF row.Type = "image" THEN row.Value * CARBON_FACTORS["image_gen"]
    ELSE LET factor == IF row.Type = "reasoning" THEN CARBON_FACTORS["reasoning_text"]
                       ELSE IF row.Type = "embedding" THEN CARBON_FACTORS["embedding"]
                       ELSE CARBON_FACTORS["standard_text"]
         IN  (row.Value * factor) \div 1000

\* a plausible slip: a fixed overhead added to every row's carbon
CarbonWithOverhead(kwh, grid_intensity) == kwh * grid_intensity + 1

\* df_raw['Carbon_g'] = df_raw['kWh'] * grid_intensity
Carbon_g(kwh, grid_intensity) == kwh * grid_intensity

\* df_raw with the kWh and Carbon_g columns
WithCarbon(df, grid_intensity) ==
    [i \in 1..Len(df) |->
        LET kwh == calc_kwh(df[i])
        IN  [kWh |-> kwh, Carbon_g |-> Carbon_g(kwh, grid_intensity)] @@ df[i]]

\* a plausible slip: USD converted with the static table instead of the
\* rate the user entered
convert_to_sek_table_usd(row, rate) ==
    LET curr == row.OriginalCurrency
        val  == row.ActualCost
    IN  IF curr = "SEK" THEN val * 10
        ELSE val * RateGet(curr, 10)

\* a plausible slip: a currency missing from the table is rejected (None)
convert_to_sek_strict(row, rate) ==
    LET curr == row.OriginalCurrency
        val  == row.ActualCost
    IN  IF curr = "SEK" THEN val * 10
        ELSE IF curr = "USD" THEN val * rate
        ELSE IF curr \in TableCurrencies THEN val * EXCHANGE_RATES_TO_SEK[curr]
        ELSE -1

\* convert_to_sek(row), with usd_rate passed; the result is in tenths of SEK
convert_to_sek(row, rate) ==
    LET curr == row.OriginalCurrency
        val  == row.ActualCost
    IN  IF curr = "SEK" THEN val * 10
        ELSE IF curr = "USD" THEN val * rate
        ELSE IF curr = "EUR" THEN val * RateGet("EUR", 115)
        ELSE val * RateGet(curr, 10)

\* a plausible slip: a miss in the lookup falls back to the resource group
ProjectNameRgFallback(inventory, x) ==
    IF \E i \in 1..Len(inventory) : inventory[i].id = x
    THEN inventory[CHOOSE i \in 1..Len(inventory) :
                      /\ inventory[i].id = x
                      /\ \A j \in (i + 1)..Len(inventory) : inventory[j].id # x].project
    ELSE IF Len(Split(x)) > 4 THEN Split(x)[5] ELSE "Unknown"

\* a plausible slip: the wrong element of the split path
ProjectNameWrongSegment(inventory, x) ==
    IF inventory # <<>>
    THEN IF \E i \in 1..Len(inventory) : inventory[i].id = x
         THEN inventory[CHOOSE i \in 1..Len(inventory) :
                           /\ inventory[i].id = x
                           /\ \A j \in (i + 1)..Len(inventory) : inventory[j].id # x].project
         ELSE "Unknown"
    ELSE IF Len(Split(x)) > 4 THEN Split(x)[4] ELSE "Unknown"

\* df_cost['ProjectName'] of one row with ResourceId x: the id_to_proj lookup
\* when the inventory is not empty (last entry of an id wins), else the
\* resource-group segment of the id
ProjectName(inventory, x) ==
    IF inventory # <<>>
    THEN IF \E i \in 1..Len(inventory) : inventory[i].id = x
         THEN inventory[CHOOSE i \in 1..Len(inventory) :
                           /\ inventory[i].id = x
                           /\ \A j \in (i + 1)..Len(inventory) : inventory[j].id # x].project
         ELSE "Unknown"
    ELSE IF Len(Split(x)) > 4 THEN Split(x)[5] ELSE "Unknown"

\* df_cost with the CostSEK and ProjectName columns
WithCostSEK(df, rate, inventory) ==
    [i \in 1..Len(df) |->
        [CostSEK |-> convert_to_sek(df[i], rate),
         ProjectName |-> ProjectName(inventory, df[i].ResourceId)] @@ df[i]]


(***************************************************************************)
(* Processing: summaries.  A groupby yields one row per key; the model     *)
(* lists the keys in order of first appearance (pandas sorts them, and the *)
(* program states nothing about that order).                               *)
(***************************************************************************)
Column(df, c) == [i \in 1..Len(df) |-> df[i][c]]

\* df_raw.groupby("Model")[["Carbon_g", "Value"]].sum()
GroupByModel(df) ==
    LET keys == Unique(Column(df, "Model"))
        Of(k) == SelectSeq(df, LAMBDA r : r.Model = k)
    IN  [n \in 1..Len(keys) |->
            [Model |-> keys[n],
             Carbon_g |-> SumSeq(Column(Of(keys[n]), "Carbon_g")),
             Value |-> SumSeq(Column(Of(keys[n]), "Value"))]]

\* sort_values("Carbon_g", ascending=False); equal keys keep their order
RECURSIVE InsertDesc(_, _)
InsertDesc(r, sorted) ==
    IF sorted = <<>> THEN <<r>>
    ELSE IF r.Carbon_g > Head(sorted).Carbon_g THEN <<r>> \o sorted
    ELSE <<Head(sorted)>> \o InsertDesc(r, Tail(sorted))

RECURSIVE SortDesc(_)
SortDesc(df) ==
    IF df = <<>> THEN <<>>
    ELSE InsertDesc(df[Len(df)], SortDesc(SubSeq(df, 1, Len(df) - 1)))

\* a plausible slip: every metric but the prompt tokens counted as output
df_usage_agg_rest_is_output(df) ==
    LET keys == Unique(Column(df, "Project"))
        Of(k) == SelectSeq(df, LAMBDA r : r.Project = k)
        In(k) == SelectSeq(Of(k), LAMBDA r : r.Metric = "ProcessedPromptTokens")
        Out(k) == SelectSeq(Of(k), LAMBDA r : r.Metric # "ProcessedPromptTokens")
    IN  [n \in 1..Len(keys) |->
            [Project |-> keys[n],
             Carbon_Total |-> SumSeq(Column(Of(keys[n]), "Carbon_g")),
             Input_Tokens |-> SumSeq(Column(In(keys[n]), "Value")),
             Output_Tokens |-> SumSeq(Column(Out(keys[n]), "Value"))]]

\* df_usage_agg: per Project the carbon sum and the token sums by metric
df_usage_agg(df) ==
    LET keys == Unique(Column(df, "Project"))
        Of(k) == SelectSeq(df, LAMBDA r : r.Project = k)
        In(k) == SelectSeq(Of(k), LAMBDA r : r.Metric = "ProcessedPromptTokens")
        Out(k) == SelectSeq(Of(k), LAMBDA r :
                     r.Metric \in {"GeneratedTokens", "GeneratedCompletionTokens"})
    IN  [n \in 1..Len(keys) |->
            [Project |-> keys[n],
             Carbon_Total |-> SumSeq(Column(Of(keys[n]), "Carbon_g")),
             Input_Tokens |-> SumSeq(Column(In(keys[n]), "Value")),
             Output_Tokens |-> SumSeq(Column(Out(keys[n]), "Value"))]]

\* df_cost_agg: per ProjectName the CostSEK sum; an empty frame when df_cost
\* is empty
df_cost_agg(df) ==
    LET keys == Unique(Column(df, "ProjectName"))
        Of(k) == SelectSeq(df, LAMBDA r : r.ProjectName = k)
    IN  [n \in 1..Len(keys) |->
            [ProjectName |-> keys[n],
             Cost_SEK |-> SumSeq(Column(Of(keys[n]), "CostSEK"))]]

SummaryRow(name, cost, carbon, inp, out) ==
    [ProjectName |-> name, Cost_SEK |-> cost, Carbon_Total |-> carbon,
     Input_Tokens |-> inp, Output_Tokens |-> out]

\* a plausible slip: how='inner', keeping only the projects found in both
MergeInner(cost_agg, usage_agg) ==
    LET Matches(l) == SelectSeq(usage_agg, LAMBDA u : u.Project = l.ProjectName)
    IN  Flatten([i \in 1..Len(cost_agg) |->
            [k \in 1..Len(Matches(cost_agg[i])) |->
                SummaryRow(cost_agg[i].ProjectName, cost_agg[i].Cost_SEK,
                           Matches(cost_agg[i])[k].Carbon_Total,
                           Matches(cost_agg[i])[k].Input_Tokens,
                           Matches(cost_agg[i])[k].Output_Tokens)]])

\* pd.merge(df_cost_agg, df_usage_agg, left_on='ProjectName',
\* right_on='Project', how='outer'), ProjectName filled from Project, the
\* Project column dropped and the remaining NaN filled with 0
MergeOuter(cost_agg, usage_agg) ==
    LET Matches(l) == SelectSeq(usage_agg, LAMBDA u : u.Project = l.ProjectName)
        LeftRows(l) ==
            IF Matches(l) = <<>>
            THEN <<SummaryRow(l.ProjectName, l.Cost_SEK, 0, 0, 0)>>
            ELSE [k \in 1..Len(Matches(l)) |->
                    SummaryRow(l.ProjectName, l.Cost_SEK, Matches(l)[k].Carbon_Total,
                               Matches(l)[k].Input_Tokens, Matches(l)[k].Output_Tokens)]
        RightOnly(u) ==
            IF \E i \in 1..Len(cost_agg) : cost_agg[i].ProjectName = u.Project
            THEN <<>>
            ELSE <<SummaryRow(u.Project, 0, u.Carbon_Total, u.Input_Tokens,
                              u.Output_Tokens)>>
    IN  Flatten([i \in 1..Len(cost_agg) |-> LeftRows(cost_agg[i])])
        \o Flatten([i \in 1..Len(usage_agg) |-> RightOnly(usage_agg[i])])

\* a plausible slip: no summary built when there is no cost table
ProjectSummaryNeedsCost(cost_agg, usage_agg) ==
    IF cost_agg # <<>> THEN MergeOuter(cost_agg, usage_agg) ELSE <<>>

\* df_project_summary
ProjectSummary(cost_agg, usage_agg) ==
    IF cost_agg # <<>>
    THEN MergeOuter(cost_agg, usage_agg)
    ELSE [i \in 1..Len(usage_agg) |->
            SummaryRow(usage_agg[i].Project, 0, usage_agg[i].Carbon_Total,
                       usage_agg[i].Input_Tokens, usage_agg[i].Output_Tokens)]


(***************************************************************************)
(* The script run                                                          *)
(***************************************************************************)
\* the messages of the script
M_NoSub       == "Please provide Subscription ID."
M_AuthFailed  == "Authentication Failed"
M_Found       == "Found model deployments across your resources."
M_NoResources == "No OpenAI resources found."
M_NoData      == "No data returned. Check Debug Logs or ensure your models have traffic."

\* one call sent out: its kind, the account and the deployment it is about
\* (<<>> and "" when it has none) and whether it returned normally
Request(kind, account, deployment, ok) ==
    [kind |-> kind, account |-> account, deployment |-> deployment, ok |-> ok]

\* a plausible slip: the browser login tried whatever the silent attempt gave
get_azure_credentials_both(silent_ok, interactive_ok) ==
    [credential |-> IF silent_ok \/ interactive_ok THEN "ok" ELSE None,
     attempts |-> <<Request("silent", <<>>, "", silent_ok),
                    Request("interactive", <<>>, "", interactive_ok)>>]

\* get_azure_credentials: DefaultAzureCredential and its token probe, then,
\* if that raised, InteractiveBrowserCredential and its token probe; None
\* when both raised
get_azure_credentials(silent_ok, interactive_ok) ==
    IF silent_ok
    THEN [credential |-> "ok",
          attempts |-> <<Request("silent", <<>>, "", TRUE)>>]
    ELSE [credential |-> IF interactive_ok THEN "ok" ELSE None,
          attempts |-> <<Request("silent", <<>>, "", FALSE),
                         Request("interactive", <<>>, "", interactive_ok)>>]

\* the calls of a discovery: the resource listing, then one deployments
\* call per account found
DiscoveryRequests(found, answers) ==
    <<Request("resources", <<>>, "", TRUE)>>
    \o [i \in 1..Len(found) |->
           Request("deployments", found[i].id, "",
                   ~answers[i].raised /\ answers[i].status_code = 200)]

\* the call for visit[i] is the one that raises
Raises(visit, i, fail) ==
    /\ fail.at # 0
    /\ visit[i].id = fail.account
    /\ PlaceInAccount(visit, i) = fail.at

\* a plausible slip: the call that raised sent once more
MetricCallsRetrying(visit, fail) ==
    Flatten([i \in 1..Len(visit) |->
        IF Answered(visit, i, fail)
        THEN <<Request("metrics", visit[i].id, visit[i].deployment_name, TRUE)>>
        ELSE IF Raises(visit, i, fail)
        THEN <<Request("metrics", visit[i].id, visit[i].deployment_name, FALSE),
               Request("metrics", visit[i].id, visit[i].deployment_name, FALSE)>>
        ELSE <<>>])

\* a plausible slip: the exception caught around the whole loop, so that no
\* call follows the one that raised
MetricCallsStopAtFailure(visit, fail) ==
    Flatten([i \in 1..Len(visit) |->
        IF \E j \in 1..(i - 1) : Raises(visit, j, fail) THEN <<>>
        ELSE IF Raises(visit, i, fail)
        THEN <<Request("metrics", visit[i].id, visit[i].deployment_name, FALSE)>>
        ELSE <<Request("metrics", visit[i].id, visit[i].deployment_name, TRUE)>>])

\* the client.metrics.list calls of a fetch: every deployment up to and
\* including the one whose call raises, account by account
MetricCalls(visit, fail) ==
    Flatten([i \in 1..Len(visit) |->
        IF Answered(visit, i, fail)
        THEN <<Request("metrics", visit[i].id, visit[i].deployment_name, TRUE)>>
        ELSE IF Raises(visit, i, fail)
        THEN <<Request("metrics", visit[i].id, visit[i].deployment_name, FALSE)>>
        ELSE <<>>])

\* the one POST of the cost query
CostRequests(resp) ==
    <<Request("cost", <<>>, "", ~resp.raised /\ resp.status_code = 200)>>

\* the state of a run before any data is fetched
Fresh ==
    /\ credential = "unset"
    /\ dept_responses = <<>>
    /\ final_inventory = <<>>
    /\ debug_logs = <<>>
    /\ errors = <<>>
    /\ cost_response = NoAnswer
    /\ cost_error = None
    /\ df_raw = <<>>
    /\ df_cost = <<>>
    /\ total_kwh = 0
    /\ total_co2 = 0
    /\ total_cost_sek = 0
    /\ tree_days = 0
    /\ df_model = <<>>
    /\ df_project_summary = <<>>
    /\ df_export = <<>>
    /\ messages = {}
    /\ shown = "none"
    /\ requests = <<>>
    /\ current_step = 0

\* the sidebar: the widgets' values when the run starts
Init ==
    /\ pc = "start"
    /\ mode \in Modes
    /\ selected_region \in SelectableRegions
    /\ usd_rate \in UsdRates
    /\ sub_id \in (IF mode = "Demo Data" THEN {""} ELSE {"", "sub"})
    /\ show_debug \in (IF mode = "Auto-Discovery" THEN BOOLEAN ELSE {FALSE})
    /\ Fresh

widgets == <<mode, selected_region, usd_rate, sub_id, show_debug>>
outputs == <<total_kwh, total_co2, total_cost_sek, tree_days, df_model,
             df_project_summary, df_export, shown>>
calls   == <<requests, current_step>>
fetched == <<dept_responses, final_inventory, debug_logs, errors, cost_response,
             cost_error, df_raw, df_cost>>

\* mode == "Demo Data"
GenerateDemo ==
    /\ pc = "start"
    /\ mode = "Demo Data"
    /\ \E date \in DemoHours, draws \in [1..3 -> DemoDraws],
          amounts \in [1..3 -> DemoCosts] :
          /\ df_raw' = DemoUsage(date, draws)
          /\ df_cost' = DemoCost(amounts)
    /\ pc' = "fetched"
    /\ UNCHANGED <<widgets, credential, dept_responses, final_inventory,
                   debug_logs, errors, cost_response, cost_error, outputs,
                   messages, calls>>

\* a run against Azure with no subscription id (Manual Input: with a text
\* input left empty): nothing is fetched
MissingInput ==
    /\ pc = "start"
    /\ mode # "Demo Data"
    /\ sub_id = ""
    /\ messages' = IF mode = "Auto-Discovery" THEN messages \cup {M_NoSub}
                   ELSE messages
    /\ pc' = "fetched"
    /\ UNCHANGED <<widgets, credential, fetched, outputs, calls>>

\* get_azure_credentials: a credential, or None with an error message.
\* Auto-Discovery goes on only with a credential; Manual Input goes on with
\* whatever was returned.
AuthenticateWith(browser_logins) ==
    /\ pc = "start"
    /\ mode # "Demo Data"
    /\ sub_id # ""
    /\ \E silent_ok \in BOOLEAN, interactive_ok \in browser_logins :
          LET c == get_azure_credentials(silent_ok, interactive_ok).credential
          IN  /\ credential' = c
              /\ requests' = requests
                    \o get_azure_credentials(silent_ok, interactive_ok).attempts
              /\ messages' = IF c = None THEN messages \cup {M_AuthFailed} ELSE messages
              /\ pc' = IF c = None /\ mode = "Auto-Discovery" THEN "fetched" ELSE "authed"
    /\ UNCHANGED <<widgets, fetched, outputs, current_step>>

\* on a server no browser can be opened: the interactive login raises
Authenticate == AuthenticateWith({FALSE})

\* a plausible slip: the fetches started whatever the discovery found
AfterDiscoveryAlwaysFetch(inventory) == "inventory"

\* "if final_inventory": the fetches follow only a non-empty inventory
AfterDiscovery(inventory) == IF inventory # <<>> THEN "inventory" ELSE "fetched"

\* mode == "Auto-Discovery": discover_resources_and_deployments over the
\* given resource listings and answers of the deployments call (the scan
\* of the whole subscription; the optional resource-group filter only
\* changes the listing asked for)
DiscoverWith(resource_listings, deployment_answers) ==
    /\ pc = "authed"
    /\ mode = "Auto-Discovery"
    /\ \E res_iter \in resource_listings :
          LET found == found_accounts_list(res_iter)
          IN  \E answers \in [1..Len(found) -> deployment_answers] :
                 /\ dept_responses' = answers
                 /\ final_inventory' =
                       BuildInventory(found, [i \in 1..Len(found) |->
                                                 get_deployments(answers[i])])
                 /\ debug_logs' =
                       <<"Scanning Subscription for OpenAI accounts...">>
                       \o [i \in 1..Len(found) |->
                              "Inspecting account: " \o found[i].name]
                 /\ messages' = messages \cup
                       {IF final_inventory' # <<>> THEN M_Found ELSE M_NoResources}
                 /\ requests' = requests \o DiscoveryRequests(found, answers)
                 /\ pc' = AfterDiscovery(final_inventory')
    /\ UNCHANGED <<widgets, credential, errors, cost_response, cost_error,
                   df_raw, df_cost, outputs, current_step>>

Discover == DiscoverWith(ResourceListings, DeploymentAnswers)

\* mode == "Manual Input": the one-entry inventory built from the text inputs
ManualInventory(rg_name, res_name) ==
    << [id |-> ResPath(rg_name, "Microsoft.CognitiveServices", "accounts", res_name),
        name |-> res_name, deployment_name |-> AGGREGATED,
        model_name |-> s_Manual, type |-> "text", group |-> rg_name,
        project |-> rg_name, tags |-> NoTags] >>

ManualInput ==
    /\ pc = "authed"
    /\ mode = "Manual Input"
    /\ final_inventory' = ManualInventory("rg1", "acctA")
    /\ pc' = "inventory"
    /\ UNCHANGED <<widgets, credential, dept_responses, debug_logs, errors,
                   cost_response, cost_error, df_raw, df_cost, outputs, messages,
                   calls>>

\* fetch_detailed_metrics: the samples of at most MaxSamples (deployment,
\* metric, time stamp) cells are positive, the others all carry one of the
\* totals the filter drops; with faulty, a call may raise.  Without a
\* credential (Manual Input after a failed authentication) either the
\* construction of the client raises and the run ends there, or every
\* account's first call raises.
FetchDetailedMetricsWith(faulty) ==
    /\ pc = "inventory"
    /\ LET visit == VisitOrder(final_inventory)
           cells == (1..Len(visit)) \X (1..Len(MetricNames)) \X (1..Len(TimeStamps))
           ids   == GroupedIds(final_inventory)
       IN  IF credential = "ok"
           THEN /\ \E pos \in {P \in SUBSET cells : Cardinality(P) <= MaxSamples},
                      other \in {x \in SampleTotals : ~KeepsSample(x)},
                      good \in {x \in SampleTotals : KeepsSample(x)},
                      fail \in (IF faulty THEN MetricFailures(final_inventory)
                                ELSE {NoFailure}) :
                      LET resps == [i \in 1..Len(visit) |->
                                      [m \in 1..Len(MetricNames) |->
                                         [t \in 1..Len(TimeStamps) |->
                                            IF <<i, m, t>> \in pos THEN good ELSE other]]]
                      IN  /\ df_raw' = MetricRows(visit, resps, fail)
                          /\ errors' = MetricErrors(fail)
                          /\ requests' = requests \o MetricCalls(visit, fail)
                /\ current_step' = Len(ids)
                /\ pc' = "metrics"
                /\ shown' = shown
           ELSE /\ df_raw' = <<>>
                /\ requests' = requests
                /\ \/ /\ errors' = Flatten([i \in 1..Len(ids) |->
                                      MetricErrors(Failure(ids[i], 1, "no credential"))])
                      /\ current_step' = Len(ids)
                      /\ pc' = "metrics"
                      /\ shown' = shown
                   \/ /\ errors' = errors
                      /\ current_step' = current_step
                      /\ pc' = "done"
                      /\ shown' = "exception"
    /\ UNCHANGED <<widgets, credential, dept_responses, final_inventory,
                   debug_logs, cost_response, cost_error, df_cost, total_kwh,
                   total_co2, total_cost_sek, tree_days, df_model,
                   df_project_summary, df_export, messages>>

FetchDetailedMetrics == FetchDetailedMetricsWith(FALSE)

\* fetch_actual_costs for the ids of the inventory, in an environment env of
\* answers ("answers": the API works, "failures": it can fail, "layouts":
\* it works and chooses its columns); without a credential the token
\* request raises
FetchActualCostsWith(env) ==
    /\ pc = "metrics"
    /\ LET ids == {final_inventory[i].id : i \in 1..Len(final_inventory)}
       IN  \E resp \in (IF credential # "ok" THEN {CostAnswer(TRUE, 200, <<>>, <<>>)}
                        ELSE IF env = "failures" THEN FaultyCostResponses(ids)
                        ELSE IF env = "layouts" THEN LayoutCostResponses(ids)
                        ELSE CostResponses(ids)) :
              /\ cost_response' = resp
              /\ df_cost' = fetch_actual_costs(resp).rows
              /\ cost_error' = fetch_actual_costs(resp).error_msg
              /\ requests' = requests \o
                    (IF credential # "ok" THEN <<>> ELSE CostRequests(resp))
    /\ pc' = "fetched"
    /\ UNCHANGED <<widgets, credential, dept_responses, final_inventory,
                   debug_logs, errors, df_raw, outputs, messages, current_step>>

FetchActualCosts == FetchActualCostsWith("answers")

\* a plausible slip: the yearly absorption (21 kg) used as the daily one
TreeDaysOfYearly(co2) == co2 \div 210000000

\* tree_days = total_co2 / GRAMS_CO2_PER_TREE_DAY, in thousandths of a day
\* (rounded down)
TreeDays(co2) == co2 \div (GRAMS_CO2_PER_TREE_DAY \div 1000)

\* the "Logs" expander: shown with the debug box ticked and a discovery log
\* or a metrics error to show; the cost error is shown inside it only
LogsShown ==
    IF show_debug /\ (debug_logs # <<>> \/ errors # <<>>)
    THEN Range(debug_logs) \cup Range(errors)
         \cup (IF cost_error # None THEN {cost_error} ELSE {})
    ELSE {}

\* PROCESSING & VISUALIZATION
Process ==
    /\ pc = "fetched"
    /\ IF df_raw # <<>>
       THEN LET raw  == WithCarbon(df_raw, REGION_INTENSITY[selected_region])
                cost == IF df_cost # <<>>
                        THEN WithCostSEK(df_cost, usd_rate, final_inventory)
                        ELSE df_cost
            IN  /\ df_raw' = raw
                /\ df_cost' = cost
                /\ total_co2' = SumSeq(Column(raw, "Carbon_g"))
                /\ total_kwh' = SumSeq(Column(raw, "kWh"))
                /\ tree_days' = TreeDays(total_co2')
                /\ total_cost_sek' = IF df_cost # <<>>
                                     THEN SumSeq(Column(cost, "CostSEK")) ELSE 0
                /\ df_model' = SortDesc(GroupByModel(raw))
                /\ df_project_summary' =
                       ProjectSummary(IF df_cost # <<>> THEN df_cost_agg(cost) ELSE <<>>,
                                      df_usage_agg(raw))
                /\ shown' = "dashboard"
                /\ messages' = messages \cup LogsShown
       ELSE /\ shown' = IF ~show_debug THEN "nodata" ELSE "none"
            /\ messages' = messages \cup LogsShown
                           \cup (IF ~show_debug THEN {M_NoData} ELSE {})
            /\ UNCHANGED <<df_raw, df_cost, total_kwh, total_co2, total_cost_sek,
                           tree_days, df_model, df_project_summary>>
    /\ pc' = "done"
    /\ UNCHANGED <<widgets, credential, dept_responses, final_inventory,
                   debug_logs, errors, cost_response, cost_error, df_export,
                   calls>>

\* the run when the Azure APIs answer (an authentication may still fail)
Next ==
    \/ GenerateDemo
    \/ MissingInput
    \/ Authenticate
    \/ Discover
    \/ ManualInput
    \/ FetchDetailedMetrics
    \/ FetchActualCosts
    \/ Process

Spec == Init /\ [][Next]_vars

\* the runs against Azure (Auto-Discovery and Manual Input)
InitAzure == Init /\ mode # "Demo Data"

NextAzure ==
    \/ MissingInput
    \/ Authenticate
    \/ Discover
    \/ ManualInput
    \/ FetchDetailedMetrics
    \/ FetchActualCosts
    \/ Process

SpecAzure == InitAzure /\ [][NextAzure]_vars


\* the runs against Azure when the metrics calls and the cost query can fail
NextFaulty ==
    \/ MissingInput
    \/ Authenticate
    \/ Discover
    \/ ManualInput
    \/ FetchDetailedMetricsWith(TRUE)
    \/ FetchActualCostsWith("failures")
    \/ Process

SpecFaulty == InitAzure /\ [][NextFaulty]_vars


\* the discovery alone, when the deployments call can fail or answer with a
\* malformed body
DiscoverFaulty == DiscoverWith(ResourceListings, FaultyDeploymentAnswers)

InitDiscover == Init /\ mode = "Auto-Discovery" /\ sub_id = "sub"

NextDiscover == Authenticate \/ DiscoverFaulty

SpecDiscover == InitDiscover /\ [][NextDiscover]_vars

\* the authentication where a browser can be opened (a local run), followed
\* by the inventory step
AuthenticateLocal == AuthenticateWith(BOOLEAN)

NextAuth == AuthenticateLocal \/ Discover \/ ManualInput

SpecAuth == InitAzure /\ [][NextAuth]_vars

\* the fetching steps of a run against Azure when every call can fail
InitRetry ==
    InitAzure /\ selected_region = "Global Average" /\ show_debug = FALSE

NextRetry ==
    \/ Authenticate
    \/ DiscoverFaulty
    \/ ManualInput
    \/ FetchDetailedMetricsWith(TRUE)
    \/ FetchActualCostsWith("failures")

SpecRetry == InitRetry /\ [][NextRetry]_vars

\* the discovery and the metrics fetch over accounts with every combination
\* of project tags (absent, empty, set), in a resource group or with an id
\* whose resource-group segment is empty
LabelTags ==
    [DigitalProduct : {None, "", "dp"}, Project : {None, "projX"},
     Application : {None, "app"}]

LabelResources ==
    {[id |-> ResPath(rg, "Microsoft.CognitiveServices", "accounts", "acctL"),
      name |-> "acctL", kind |-> "OpenAI", tags |-> t] :
        rg \in {"rg1", ""}, t \in LabelTags}

DiscoverLabels ==
    DiscoverWith({<<r>> : r \in LabelResources},
                 {AnswerOf(<<>>), AnswerOf(<<d_gpt4, d_dalle3>>)})

NextLabel == Authenticate \/ DiscoverLabels \/ FetchDetailedMetrics

SpecLabel == InitDiscover /\ [][NextLabel]_vars


(***************************************************************************)
(* Classification of model names: discovery over a wide universe of names  *)
(***************************************************************************)
NameParts == {s_dall, s_o1, s_reasoning, s_embedding, s_unknown, s_gpt4,
              <<"D","A","L","L">>, <<"o">>, <<"1">>,
              <<"E","m","b","e","d","d","i","n","g">>}

\* a model name is the concatenation of at most this many parts
MaxNameParts == 2

RECURSIVE Concat(_)
Concat(parts) == IF parts = <<>> THEN <<>> ELSE Head(parts) \o Concat(Tail(parts))

ModelNames == {Concat(ps) : ps \in SeqsUpTo(NameParts, MaxNameParts)}

NamedListings ==
    {AnswerOf(<<>>)}
    \cup {AnswerOf(<<[deployment_name |-> "dep-1", model_name |-> n]>>) : n \in ModelNames}

DiscoverNames == DiscoverWith({<<res_A>>}, NamedListings)

InitClassify == Init /\ mode = "Auto-Discovery" /\ sub_id = "sub"

NextClassify == Authenticate \/ DiscoverNames

SpecClassify == InitClassify /\ [][NextClassify]_vars

(***************************************************************************)
(* Energy of one usage row: processing over every type value and region    *)
(***************************************************************************)
s_whisper == <<"w","h","i","s","p","e","r">>

\* the type values of a row; "audio" stands for a value no rule recognises
TypedModels ==
    { [type |-> "text", model_name |-> s_gpt4],
      [type |-> "reasoning", model_name |-> s_o1preview],
      [type |-> "image", model_name |-> s_dalle3],
      [type |-> "embedding", model_name |-> s_ada002],
      [type |-> "audio", model_name |-> s_whisper] }

\* the Value of the row is at most this
MaxEnergyValue == 5

acct_A == FoundAccount(res_A)

UsageRow(tm, metric, value) ==
    [TimeStamp |-> 1, Account |-> acct_A.name, ResourceId |-> acct_A.id,
     Project |-> acct_A.project, Deployment |-> "dep-1",
     Model |-> tm.model_name, Type |-> tm.type, Metric |-> metric,
     Value |-> value]

\* the state of a run at position p after a discovery (answers: the
\* answers of the deployments calls), the metrics fetch and, unless answer
\* is NoAnswer, the cost fetch
EnteredAt(p, answers, inventory, usage, answer) ==
    /\ pc = p
    /\ mode = "Auto-Discovery"
    /\ sub_id = "sub"
    /\ credential = "ok"
    /\ show_debug = FALSE
    /\ dept_responses = answers
    /\ final_inventory = inventory
    /\ debug_logs =
          LET names == Unique(Column(inventory, "name"))
          IN  <<"Scanning Subscription for OpenAI accounts...">>
              \o [i \in 1..Len(names) |-> "Inspecting account: " \o names[i]]
    /\ errors = <<>>
    /\ cost_response = answer
    /\ cost_error = IF answer = NoAnswer THEN None
                    ELSE fetch_actual_costs(answer).error_msg
    /\ df_raw = usage
    /\ df_cost = IF answer = NoAnswer THEN <<>> ELSE fetch_actual_costs(answer).rows
    /\ total_kwh = 0
    /\ total_co2 = 0
    /\ total_cost_sek = 0
    /\ tree_days = 0
    /\ df_model = <<>>
    /\ df_project_summary = <<>>
    /\ df_export = <<>>
    /\ messages = {M_Found}
    /\ shown = "none"
    /\ requests =
          LET accts == [i \in 1..Len(GroupedIds(inventory)) |->
                          CHOOSE e \in Range(inventory) : e.id = GroupedIds(inventory)[i]]
          IN  get_azure_credentials(TRUE, TRUE).attempts
              \o DiscoveryRequests(accts, answers)
              \o MetricCalls(VisitOrder(inventory), NoFailure)
              \o (IF answer = NoAnswer THEN <<>> ELSE CostRequests(answer))
    /\ current_step = Len(GroupedIds(inventory))

\* the state in which the processing block is entered
Entered(answers, inventory, usage, answer) ==
    EnteredAt("fetched", answers, inventory, usage, answer)

InitEnergy ==
    /\ selected_region \in Regions
    /\ usd_rate \in UsdRates
    /\ \E tm \in TypedModels, v \in 1..MaxEnergyValue :
          Entered(<<AnswerOf(<<[deployment_name |-> "dep-1",
                                 model_name |-> tm.model_name]>>)>>,
                  << [id |-> acct_A.id, name |-> acct_A.name, group |-> acct_A.group,
                      project |-> acct_A.project, tags |-> acct_A.tags,
                      deployment_name |-> "dep-1",
                      model_name |-> tm.model_name, type |-> tm.type] >>,
                  <<UsageRow(tm, "GeneratedTokens", v)>>,
                  CostAnswer(FALSE, 200, ColsFull, <<>>))

SpecEnergy == InitEnergy /\ [][Process]_vars

(***************************************************************************)
(* Currency conversion: processing over every currency code and rate       *)
(***************************************************************************)
SekCurrencies == {"SEK", "USD", "EUR", "GBP", "XXX", "usd", ""}
SekAmounts    == {100, 7}
SekUsdRates   == {108, 100, 95}

\* the cost table has at most this many rows
MaxSekRows == 2

InitSek ==
    /\ selected_region = "Global Average"
    /\ usd_rate \in SekUsdRates
    /\ \E rows \in SeqsUpTo({RawRow(ColsFull, a, id_A, c) :
                                a \in SekAmounts, c \in SekCurrencies}, MaxSekRows) :
          /\ rows # <<>>
          /\ Entered(<<AnswerOf(<<[deployment_name |-> "dep-1",
                                    model_name |-> s_gpt4]>>)>>,
                     AccountEntries(acct_A, <<[deployment_name |-> "dep-1",
                                               model_name |-> s_gpt4]>>),
                     <<UsageRow([type |-> "text", model_name |-> s_gpt4],
                                "ProcessedPromptTokens", 2)>>,
                     CostAnswer(FALSE, 200, ColsFull, rows))

SpecSek == InitSek /\ [][Process]_vars


(***************************************************************************)
(* Cost payloads: the cost fetch and the processing over answers with and  *)
(* without a currency column                                               *)
(***************************************************************************)
InitCost ==
    /\ selected_region \in SelectableRegions
    /\ usd_rate \in SekUsdRates
    /\ EnteredAt("metrics", <<AnswerOf(<<d_gpt4>>)>>,
                 AccountEntries(acct_A, <<d_gpt4>>),
                 <<UsageRow([type |-> "text", model_name |-> s_gpt4],
                            "ProcessedPromptTokens", 2)>>,
                 NoAnswer)

NextCost == FetchActualCostsWith("layouts") \/ Process

SpecCost == InitCost /\ [][NextCost]_vars

(***************************************************************************)
(* Aggregation: processing over usage rows of two accounts, three models   *)
(* and every metric name, with and without a cost row                      *)
(***************************************************************************)
acct_B == FoundAccount(res_B)

AggAnswers == <<AnswerOf(<<d_gpt4, d_dalle3>>), AnswerOf(<<d_gpt4>>)>>

\* the inventory: account A with gpt-4 and dall-e-3, account B with gpt-4
AggInventory ==
    BuildInventory(<<acct_A, acct_B>>,
                   [i \in 1..2 |-> get_deployments(AggAnswers[i])])

\* a usage row of the inventory entry dept, as the metrics fetch builds it;
\* the metric name is the one the API reports
AggRow(dept, metric, value) ==
    [TimeStamp |-> 1, Account |-> dept.name, ResourceId |-> dept.id,
     Project |-> dept.project, Deployment |-> dept.deployment_name,
     Model |-> dept.model_name, Type |-> dept.type, Metric |-> metric,
     Value |-> value]

\* the rows a fetch can return, in the order in which it returns them
AggRowKinds ==
    << AggRow(AggInventory[1], "ProcessedPromptTokens", 1000),
       AggRow(AggInventory[1], "GeneratedTokens", 500),
       AggRow(AggInventory[1], "GeneratedCompletionTokens", 300),
       AggRow(AggInventory[2], "GeneratedImages", 2),
       AggRow(AggInventory[3], "ProcessedPromptTokens", 1000),
       AggRow(AggInventory[3], "GeneratedTokens", 500) >>

\* a fetch returns at most this many rows
MaxAggRows == 3

\* the usage tables: the rows picked, in fetch order
AggUsage ==
    {[i \in 1..Len(ks) |-> AggRowKinds[ks[i]]] :
        ks \in {q \in SeqsUpTo(1..Len(AggRowKinds), MaxAggRows) :
                  \A i \in 1..(Len(q) - 1) : q[i] < q[i + 1]}}

InitAgg ==
    /\ selected_region \in SelectableRegions
    /\ usd_rate \in UsdRates
    /\ \E usage \in AggUsage, answer \in CostResponses({id_A, id_B}) :
          Entered(AggAnswers, AggInventory, usage, answer)

SpecAgg == InitAgg /\ [][Process]_vars


(***************************************************************************)
(* The export of PowerBI.py: its processing block over the same usage and  *)
(* cost tables (its usage rows carry no Project column)                    *)
(***************************************************************************)
\* df_export: df_raw grouped by (TimeStamp, Account, Model, Type), with the
\* sums of Value, Carbon_g and kWh
ExportTable(df) ==
    LET KeyOf(r) == <<r.TimeStamp, r.Account, r.Model, r.Type>>
        keys == Unique([i \in 1..Len(df) |-> KeyOf(df[i])])
        Of(k) == SelectSeq(df, LAMBDA r : KeyOf(r) = k)
    IN  [n \in 1..Len(keys) |->
            [TimeStamp |-> keys[n][1], Account |-> keys[n][2],
             Model |-> keys[n][3], Type |-> keys[n][4],
             Value |-> SumSeq(Column(Of(keys[n]), "Value")),
             Carbon_g |-> SumSeq(Column(Of(keys[n]), "Carbon_g")),
             kWh |-> SumSeq(Column(Of(keys[n]), "kWh"))]]

\* real_cost, in tenths: the billed amounts, or with no cost row the
\* estimate of 0.03 per 1000 tokens
real_cost(raw, cost) ==
    IF cost # <<>> THEN 10 * SumSeq(Column(cost, "ActualCost"))
    ELSE (3 * SumSeq(Column(SelectSeq(raw, LAMBDA r : r.Type # "image"), "Value")))
         \div 10000

M_NoUsage   == "No usage data found."
M_NoBilling == "No billing data available. Ensure you have 'Cost Management Reader' permissions."

\* PROCESSING of PowerBI.py; total_cost_sek holds real_cost
ProcessPowerBI ==
    /\ pc = "fetched"
    /\ LET logs == IF show_debug
                   THEN Range(debug_logs)
                        \cup (IF cost_error # None THEN {cost_error} ELSE {})
                   ELSE {}
       IN  IF df_raw # <<>>
           THEN LET raw == WithCarbon(df_raw, REGION_INTENSITY[selected_region])
                IN  /\ df_raw' = raw
                    /\ total_co2' = SumSeq(Column(raw, "Carbon_g"))
                    /\ tree_days' = TreeDays(total_co2')
                    /\ total_cost_sek' = real_cost(raw, df_cost)
                    /\ df_export' = ExportTable(raw)
                    /\ df_model' = GroupByModel(raw)
                    /\ shown' = "dashboard"
                    /\ messages' = messages \cup logs
                          \cup (IF cost_error # None
                                THEN {"Note: Using estimated cost. " \o cost_error}
                                ELSE {})
                          \cup (IF df_cost = <<>> THEN {M_NoBilling} ELSE {})
           ELSE /\ shown' = IF ~show_debug THEN "nodata" ELSE "none"
                /\ messages' = messages \cup logs
                                \cup (IF ~show_debug THEN {M_NoUsage} ELSE {})
                /\ UNCHANGED <<df_raw, total_co2, tree_days, total_cost_sek,
                               df_export, df_model>>
    /\ pc' = "done"
    /\ UNCHANGED <<widgets, credential, dept_responses, final_inventory,
                   debug_logs, errors, cost_response, cost_error, df_cost,
                   total_kwh, df_project_summary, calls>>

InitPowerBI ==
    /\ selected_region \in SelectableRegions
    /\ usd_rate \in UsdRates
    /\ \E usage \in AggUsage, answer \in CostResponses({id_A, id_B}) :
          Entered(AggAnswers, AggInventory,
                  [i \in 1..Len(usage) |->
                      [c \in DOMAIN usage[i] \ {"Project"} |-> usage[i][c]]],
                  answer)

SpecPowerBI == InitPowerBI /\ [][ProcessPowerBI]_vars


(***************************************************************************)
(* Properties                                                              *)
(***************************************************************************)
Rows(df) == {df[i] : i \in 1..Len(df)}

\* name contains sub, letter case ignored (sub is lower case)
HasCI(name, sub) ==
    \E i \in 0..(Len(name) - Len(sub)) :
        \A k \in 1..Len(sub) : LowerChar(name[i + k]) = sub[k]

IsPlaceholder(e) == e.deployment_name = AGGREGATED

\* C1: every inventory entry built from a listed deployment has the type of
\* the first matching rule on its lower-cased model name, in the order
\* "dall" -> image, "o1" or "reasoning" -> reasoning, "embedding" ->
\* embedding, no match -> text; every name gets a type; the placeholder
\* entry (model "unknown") is text.
C1_ClassifyFirstMatch ==
    /\ \A e \in Rows(final_inventory) :
          LET n    == e.model_name
              dall == HasCI(n, s_dall)
              reas == HasCI(n, s_o1) \/ HasCI(n, s_reasoning)
              emb  == HasCI(n, s_embedding)
          IN  IF IsPlaceholder(e) THEN e.model_name = s_unknown /\ e.type = "text"
              ELSE /\ e.type \in {"image", "reasoning", "embedding", "text"}
                   /\ e.type = "image" <=> dall
                   /\ e.type = "reasoning" <=> (~dall /\ reas)
                   /\ e.type = "embedding" <=> (~dall /\ ~reas /\ emb)
                   /\ e.type = "text" <=> (~dall /\ ~reas /\ ~emb)
    /\ ModelType(s_dalle3) = "image"
    /\ ModelType(s_o1preview) = "reasoning"
    /\ ModelType(s_ada002) = "embedding"
    /\ ModelType(s_gpt4) = "text"
    /\ ModelType(s_unknown) = "text"

\* C1 witness: a discovered deployment whose name contains both "dall" and
\* "embedding" is in the inventory as image
C1_Witness ==
    \E e \in Rows(final_inventory) :
        /\ ~IsPlaceholder(e)
        /\ HasCI(e.model_name, s_dall)
        /\ HasCI(e.model_name, s_embedding)
        /\ e.type = "image"

\* C2: after processing, an image row has kWh = Value x 0.05 (no division
\* by 1000); any other row has kWh = (Value / 1000) x factor with factor
\* 0.0015 for reasoning, 0.0001 for embedding and 0.0004 for every other
\* type value.  (Unit 1e-7 kWh: 0.05 kWh = 500000, 0.0004 kWh = 4000.)
C2_EnergyPrecedence ==
    /\ (pc = "done" /\ shown = "dashboard") =>
          \A r \in Rows(df_raw) :
              IF r.Type = "image" THEN r.kWh = r.Value * 500000
              ELSE IF r.Type = "reasoning" THEN r.kWh * 1000 = r.Value * 15000
              ELSE IF r.Type = "embedding" THEN r.kWh * 1000 = r.Value * 1000
              ELSE r.kWh * 1000 = r.Value * 4000
    /\ calc_kwh([Type |-> "image", Value |-> 5]) = 2500000
    /\ calc_kwh([Type |-> "text", Value |-> 2000]) = 8000

\* C2 witness: a processed image row of 5 images carries 0.25 kWh
C2_Witness ==
    /\ pc = "done"
    /\ \E r \in Rows(df_raw) : r.Type = "image" /\ r.Value = 5 /\ r.kWh = 2500000

\* C3: after processing, a SEK row's CostSEK is its amount; a USD row's is
\* amount x the rate the user entered (not the table's USD entry); a EUR
\* row's is amount x 11.5; a GBP row's is amount x 13.5.  (CostSEK in
\* tenths of SEK.)
C3_ConvertToSEK ==
    /\ (pc = "done" /\ shown = "dashboard") =>
          \A r \in Rows(df_cost) :
              /\ r.OriginalCurrency = "SEK" => r.CostSEK = r.ActualCost * 10
              /\ r.OriginalCurrency = "USD" => r.CostSEK = r.ActualCost * usd_rate
              /\ r.OriginalCurrency = "EUR" => r.CostSEK = r.ActualCost * 115
              /\ r.OriginalCurrency = "GBP" => r.CostSEK = r.ActualCost * 135
    /\ convert_to_sek([OriginalCurrency |-> "USD", ActualCost |-> 100], 108) = 10800
    /\ convert_to_sek([OriginalCurrency |-> "SEK", ActualCost |-> 100], 108) = 1000

\* C3 witness: a processed USD row converted at an entered rate of 10.0,
\* which differs from the table's 10.8
C3_Witness ==
    /\ pc = "done"
    /\ usd_rate = 100
    /\ \E r \in Rows(df_cost) :
          r.OriginalCurrency = "USD" /\ r.ActualCost = 100 /\ r.CostSEK = 10000

KnownCurrencies == {"SEK", "USD", "EUR"} \cup TableCurrencies

\* C4: processing keeps every cost row, and a row whose currency code is
\* neither SEK, USD, EUR nor a key of the exchange table gets CostSEK =
\* amount (1:1) and is counted in the total; the dashboard is rendered.
C4_UnknownCurrencyOneToOne ==
    [][ (pc = "fetched" /\ pc' = "done" /\ df_raw # <<>>) =>
           /\ Len(df_cost') = Len(df_cost)
           /\ \A i \in 1..Len(df_cost) :
                 /\ df_cost'[i].ActualCost = df_cost[i].ActualCost
                 /\ df_cost'[i].OriginalCurrency = df_cost[i].OriginalCurrency
                 /\ df_cost[i].OriginalCurrency \notin KnownCurrencies =>
                       df_cost'[i].CostSEK = df_cost[i].ActualCost * 10
           /\ total_cost_sek' = SumSeq([i \in 1..Len(df_cost) |-> df_cost'[i].CostSEK])
           /\ shown' = "dashboard" ]_vars

\* C4 witness: a processed row of 100 "XXX" carries CostSEK 100
C4_Witness ==
    /\ pc = "done"
    /\ \E r \in Rows(df_cost) :
          r.OriginalCurrency = "XXX" /\ r.ActualCost = 100 /\ r.CostSEK = 1000


InventoryIds == {final_inventory[i].id : i \in 1..Len(final_inventory)}

\* the rows of the project summary named p
SummaryOf(p) ==
    {i \in 1..Len(df_project_summary) : df_project_summary[i].ProjectName = p}

CostProjects  == {ProjectName(final_inventory, r.ResourceId) : r \in Rows(df_cost)}
UsageProjects == {r.Project : r \in Rows(df_raw)}

OuterJoined ==
    \A p \in CostProjects \cup UsageProjects :
        /\ Cardinality(SummaryOf(p)) = 1
        /\ \A i \in SummaryOf(p) :
              /\ p \notin UsageProjects =>
                    /\ df_project_summary[i].Carbon_Total = 0
                    /\ df_project_summary[i].Input_Tokens = 0
                    /\ df_project_summary[i].Output_Tokens = 0
              /\ p \notin CostProjects => df_project_summary[i].Cost_SEK = 0

\* C5 (as claimed): at the end of a run, for any cost rows and usage rows,
\* every project of a cost row or of a usage row appears exactly once in
\* the project summary, with token and carbon figures 0 when it has no
\* usage rows and cost 0 when it has no cost rows.
C5_OuterJoinAnyRows == pc = "done" => OuterJoined

\* C5 (what the program keeps): the same, in the runs that have at least
\* one usage row
C5_OuterJoinWhenUsage == (pc = "done" /\ df_raw # <<>>) => OuterJoined

\* C5: a run with usage for one project only and cost for another only,
\* both in the summary
C5_BothSidesMissing ==
    /\ pc = "done"
    /\ \E p \in CostProjects : p \notin UsageProjects /\ SummaryOf(p) # {}
    /\ \E p \in UsageProjects : p \notin CostProjects /\ SummaryOf(p) # {}

\* C6: in an aggregation pass with an id-to-project mapping (a non-empty
\* inventory), a cost row whose ResourceId is not an id of the inventory is
\* labelled "Unknown", the summary has exactly one "Unknown" row whose cost
\* is the sum of those rows, and the total cost is the sum over all rows.
C6_UnmappedIsUnknown ==
    (pc = "done" /\ shown = "dashboard" /\ final_inventory # <<>>) =>
        LET unmapped == {r \in Rows(df_cost) : r.ResourceId \notin InventoryIds}
            labelled == SelectSeq(df_cost, LAMBDA r : r.ProjectName = "Unknown")
        IN  /\ \A r \in unmapped : r.ProjectName = "Unknown"
            /\ unmapped # {} =>
                  /\ Cardinality(SummaryOf("Unknown")) = 1
                  /\ \A i \in SummaryOf("Unknown") :
                        /\ df_project_summary[i].Cost_SEK =
                              SumSeq(Column(labelled, "CostSEK"))
                        /\ \A r \in unmapped :
                              df_project_summary[i].Cost_SEK >= r.CostSEK
            /\ total_cost_sek = SumSeq(Column(df_cost, "CostSEK"))

\* C6 witness: a processed cost row with an id the inventory lacks, counted
\* under "Unknown"
C6_Witness ==
    /\ pc = "done"
    /\ shown = "dashboard"
    /\ final_inventory # <<>>
    /\ \E r \in Rows(df_cost) :
          /\ r.ResourceId \notin InventoryIds
          /\ r.ProjectName = "Unknown"
          /\ r.CostSEK > 0
          /\ total_cost_sek >= r.CostSEK
          /\ \E i \in SummaryOf("Unknown") :
                df_project_summary[i].Cost_SEK >= r.CostSEK

\* position of the n-th "/" of a resource id (0 when there is none)
SlashAt(x, n) ==
    LET at == {i \in 1..Len(x) :
                 x[i] = "/" /\ Cardinality({j \in 1..i : x[j] = "/"}) = n}
    IN  IF at = {} THEN 0 ELSE CHOOSE i \in at : TRUE

\* the label the resource path gives: the token after the fourth "/" when
\* the path has one, else "Unknown"
PathLabel(x) ==
    IF SlashAt(x, 4) # 0 /\ SlashAt(x, 4) < Len(x) /\ x[SlashAt(x, 4) + 1] # "/"
    THEN x[SlashAt(x, 4) + 1]
    ELSE IF SlashAt(x, 4) # 0 THEN "" ELSE "Unknown"

\* C7 (as claimed): a processed cost row whose ResourceId the lookup lacks
\* is labelled with the resource-group segment of its path, and "Unknown"
\* only when the path has no such segment.
C7_FallbackOnMiss ==
    (pc = "done" /\ shown = "dashboard") =>
        \A r \in Rows(df_cost) :
            r.ResourceId \notin InventoryIds => r.ProjectName = PathLabel(r.ResourceId)

\* C7 (amended): the resource-group segment is the label only when no
\* lookup is built (empty inventory, as with demo data); when a lookup is
\* built, a row whose ResourceId it lacks is labelled "Unknown" whatever its
\* path, and a row it has is labelled with the inventory's project.
C7_FallbackOnlyWithoutLookup ==
    (pc = "done" /\ shown = "dashboard") =>
        \A r \in Rows(df_cost) :
            /\ final_inventory = <<>> => r.ProjectName = PathLabel(r.ResourceId)
            /\ (final_inventory # <<>> /\ r.ResourceId \notin InventoryIds) =>
                  r.ProjectName = "Unknown"
            /\ r.ResourceId \in InventoryIds =>
                  \E e \in Rows(final_inventory) :
                      e.id = r.ResourceId /\ e.project = r.ProjectName

\* C7 witness: with no lookup, a processed cost row labelled with the
\* resource group of its path
C7_Witness ==
    /\ pc = "done"
    /\ shown = "dashboard"
    /\ final_inventory = <<>>
    /\ \E r \in Rows(df_cost) :
          /\ r.ProjectName = "rd-usecases"
          /\ r.ProjectName = PathLabel(r.ResourceId)

\* C8 (as claimed): every usage row has Value > 0, whichever source
\* produced it.
C8_ValuesPositive == \A r \in Rows(df_raw) : r.Value > 0

\* C8: the same for the rows of the metrics fetch alone
C8_FetchedValuesPositive ==
    mode # "Demo Data" => \A r \in Rows(df_raw) : r.Value > 0

\* C9: in every mode every inventory entry's type and every usage row's
\* Type is the classification of its model name, so rows of one model carry
\* one Type, and the energy of a processed row is the energy of that type.
C9_TypeFunctionOfModel ==
    /\ \A e \in Rows(final_inventory) : e.type = ModelType(e.model_name)
    /\ \A r \in Rows(df_raw) : r.Type = ModelType(r.Model)
    /\ \A r1, r2 \in Rows(df_raw) : r1.Model = r2.Model => r1.Type = r2.Type
    /\ (pc = "done" /\ shown = "dashboard") =>
          \A r \in Rows(df_raw) :
              r.kWh = calc_kwh([Type |-> ModelType(r.Model), Value |-> r.Value])

\* C9 witness: processed rows of one model from two different accounts
C9_Witness ==
    /\ pc = "done"
    /\ \E r1, r2 \in Rows(df_raw) :
          /\ r1.ResourceId # r2.ResourceId
          /\ r1.Model = r2.Model
          /\ r1.Type = r2.Type

\* C10: every processed row has Carbon_g = kWh x intensity of the selected
\* region and total carbon = total energy x that intensity; recomputing the
\* derived columns of the same rows under any region B leaves every kWh and
\* the total energy as they are and gives total carbon = total energy x
\* intensity(B), so carbon / intensity is the same for every region.
C10_RegionRescalesCarbon ==
    (pc = "done" /\ shown = "dashboard") =>
        LET I == REGION_INTENSITY[selected_region]
        IN  /\ \A r \in Rows(df_raw) : r.Carbon_g = r.kWh * I
            /\ total_co2 = total_kwh * I
            /\ \A B \in Regions :
                  LET rb == WithCarbon(df_raw, REGION_INTENSITY[B])
                      cb == SumSeq(Column(rb, "Carbon_g"))
                  IN  /\ \A i \in 1..Len(df_raw) : rb[i].kWh = df_raw[i].kWh
                      /\ SumSeq(Column(rb, "kWh")) = total_kwh
                      /\ cb = total_kwh * REGION_INTENSITY[B]
                      /\ cb % REGION_INTENSITY[B] = 0
                      /\ total_co2 % I = 0
                      /\ cb \div REGION_INTENSITY[B] = total_co2 \div I

\* C10 witness: a processed run under Europe (Sweden) with energy used
C10_Witness ==
    /\ pc = "done"
    /\ selected_region = "Europe (Sweden)"
    /\ total_kwh > 0
    /\ total_co2 = total_kwh * 20


\* the (Model, Type, Metric, Value) of the usage rows
Samples(df) == [i \in 1..Len(df) |-> <<df[i].Model, df[i].Type, df[i].Metric, df[i].Value>>]

ExampleSamples ==
    << <<s_gpt4, "text", "ProcessedPromptTokens", 1000>>,
       <<s_gpt4, "text", "GeneratedTokens", 500>>,
       <<s_dalle3, "image", "GeneratedImages", 2>> >>

\* C11: after processing, total energy and total carbon are the sums of the
\* rows' kWh and Carbon_g and tree-days is total carbon / 57.5 g (in
\* thousandths of a day, rounded down), so 57.5 g is exactly 1 tree-day; for
\* the rows (gpt-4, text, ProcessedPromptTokens, 1000), (gpt-4, text,
\* GeneratedTokens, 500), (dall-e-3, image, GeneratedImages, 2) under Global
\* Average the totals are 0.1006 kWh, 47.785 g and 0.831 tree-days.
C11_TotalsAndTreeDays ==
    /\ (pc = "done" /\ shown = "dashboard") =>
          /\ total_kwh = SumSeq(Column(df_raw, "kWh"))
          /\ total_co2 = SumSeq(Column(df_raw, "Carbon_g"))
          /\ tree_days * 575000 <= total_co2
          /\ total_co2 < (tree_days + 1) * 575000
          /\ (Samples(df_raw) = ExampleSamples /\ selected_region = "Global Average") =>
                /\ total_kwh = 1006000
                /\ total_co2 = 477850000
                /\ tree_days = 831
    /\ TreeDays(575000000) = 1000

\* C11 witness: the three rows of the example processed under Global Average
C11_Witness ==
    /\ pc = "done"
    /\ shown = "dashboard"
    /\ Samples(df_raw) = ExampleSamples
    /\ selected_region = "Global Average"
    /\ tree_days = 831


\* the sum of Value over the usage rows of project p whose metric is in ms
ValueOf(p, ms) ==
    SumSeq(Column(SelectSeq(df_raw, LAMBDA r : r.Project = p /\ r.Metric \in ms),
                  "Value"))

\* C12: after processing, every project with usage rows has exactly one
\* summary row; its Input_Tokens is the sum of Value over exactly its
\* ProcessedPromptTokens rows and its Output_Tokens the sum over exactly its
\* GeneratedTokens and GeneratedCompletionTokens rows, so GeneratedImages
\* rows count in neither.
C12_TokenSumsByMetric ==
    (pc = "done" /\ shown = "dashboard") =>
        \A p \in UsageProjects :
            /\ Cardinality(SummaryOf(p)) = 1
            /\ \A i \in SummaryOf(p) :
                  /\ df_project_summary[i].Input_Tokens =
                        ValueOf(p, {"ProcessedPromptTokens"})
                  /\ df_project_summary[i].Output_Tokens =
                        ValueOf(p, {"GeneratedTokens", "GeneratedCompletionTokens"})
                  /\ df_project_summary[i].Input_Tokens
                        + df_project_summary[i].Output_Tokens
                        + ValueOf(p, {"GeneratedImages"})
                     = ValueOf(p, {r.Metric : r \in Rows(df_raw)})

\* C12 witness: a project with a prompt row, a completion row and an image
\* row, summarised as 1000 input and 300 output tokens
C12_Witness ==
    /\ pc = "done"
    /\ shown = "dashboard"
    /\ \E p \in UsageProjects :
          /\ ValueOf(p, {"GeneratedImages"}) = 2
          /\ ValueOf(p, {"GeneratedCompletionTokens"}) = 300
          /\ \E i \in SummaryOf(p) :
                /\ df_project_summary[i].Input_Tokens = 1000
                /\ df_project_summary[i].Output_Tokens = 300


\* the answer of the cost query came with no currency column
NoCurrencyColumn ==
    /\ cost_response.status_code = 200
    /\ ~cost_response.raised
    /\ \A i \in 1..Len(cost_response.columns) :
          cost_response.columns[i] \notin {"Currency", "BillingCurrency"}

\* C13: when the cost payload has no Currency and no BillingCurrency
\* column, the fetch builds one cost record per payload row, each with
\* OriginalCurrency = "USD", and processing converts each with the USD rate
\* the user entered.
C13_NoCurrencyColumnIsUSD ==
    (pc \in {"fetched", "done"} /\ NoCurrencyColumn) =>
        /\ Len(df_cost) = Len(cost_response.rows)
        /\ \A r \in Rows(df_cost) :
              /\ r.OriginalCurrency = "USD"
              /\ (pc = "done" /\ shown = "dashboard") =>
                    r.CostSEK = r.ActualCost * usd_rate

\* C13 witness: a row of a payload without currency column, converted at the
\* entered rate 9.5
C13_Witness ==
    /\ pc = "done"
    /\ NoCurrencyColumn
    /\ usd_rate = 95
    /\ \E r \in Rows(df_cost) :
          r.OriginalCurrency = "USD" /\ r.ActualCost = 100 /\ r.CostSEK = 9500


\* the sum of column c over the usage rows of project p
UsageSum(p, c) ==
    SumSeq(Column(SelectSeq(df_raw, LAMBDA r : r.Project = p), c))

\* C14: a run with usage rows and no cost row is processed to the
\* dashboard: the total cost is 0 and the project summary has exactly one
\* row per project with usage, with Cost_SEK = 0 and the project's carbon
\* and token sums.
C14_NoCostRows ==
    (pc = "done" /\ df_raw # <<>> /\ df_cost = <<>>) =>
        /\ shown = "dashboard"
        /\ total_cost_sek = 0
        /\ Len(df_project_summary) = Cardinality(UsageProjects)
        /\ \A p \in UsageProjects :
              /\ Cardinality(SummaryOf(p)) = 1
              /\ \A i \in SummaryOf(p) :
                    /\ df_project_summary[i].Cost_SEK = 0
                    /\ df_project_summary[i].Carbon_Total = UsageSum(p, "Carbon_g")
                    /\ df_project_summary[i].Input_Tokens =
                          ValueOf(p, {"ProcessedPromptTokens"})
                    /\ df_project_summary[i].Output_Tokens =
                          ValueOf(p, {"GeneratedTokens", "GeneratedCompletionTokens"})

\* C14 witness: usage of two projects and no cost row, summarised in two
\* rows that carry carbon
C14_Witness ==
    /\ pc = "done"
    /\ df_cost = <<>>
    /\ Cardinality(UsageProjects) = 2
    /\ Len(df_project_summary) = 2
    /\ \A i \in 1..Len(df_project_summary) :
          df_project_summary[i].Cost_SEK = 0 /\ df_project_summary[i].Carbon_Total > 0


\* C15 (as claimed): a run whose fetches returned no usage row (with or
\* without cost rows) ends with the aggregation done on the empty table: the
\* dashboard is rendered with total energy, total carbon and tree-days 0 and
\* with empty per-model and per-project summaries.
C15_EmptyUsageAggregated ==
    (pc = "done" /\ df_raw = <<>> /\ cost_response.status_code = 200) =>
        /\ shown = "dashboard"
        /\ total_kwh = 0 /\ total_co2 = 0 /\ tree_days = 0
        /\ df_model = <<>>
        /\ df_project_summary = <<>>

\* C15: what the program does instead: with no usage row the processing
\* block is skipped, and the run shows the "No data returned" note, or
\* nothing at all when the debug box is ticked
C15_EmptyUsageSkipped ==
    (pc = "done" /\ df_raw = <<>> /\ cost_response.status_code = 200) =>
        /\ shown = IF show_debug THEN "none" ELSE "nodata"
        /\ \A r \in Rows(df_cost) : DOMAIN r = {"Date", "ResourceId", "ActualCost",
                                                   "OriginalCurrency"}


\* a table without the columns cs
Without(df, cs) == [i \in 1..Len(df) |-> [c \in DOMAIN df[i] \ cs |-> df[i][c]]]

\* the outputs of an aggregation pass over usage, cost, the selected region,
\* the entered rate and the inventory
Aggregated(usage, cost) ==
    LET raw == WithCarbon(usage, REGION_INTENSITY[selected_region])
        c   == IF cost # <<>> THEN WithCostSEK(cost, usd_rate, final_inventory)
               ELSE cost
    IN  [df_raw |-> raw, df_cost |-> c,
         total_kwh |-> SumSeq(Column(raw, "kWh")),
         total_co2 |-> SumSeq(Column(raw, "Carbon_g")),
         tree_days |-> TreeDays(SumSeq(Column(raw, "Carbon_g"))),
         total_cost_sek |-> IF cost # <<>> THEN SumSeq(Column(c, "CostSEK")) ELSE 0,
         df_model |-> SortDesc(GroupByModel(raw)),
         df_project_summary |->
             ProjectSummary(IF cost # <<>> THEN df_cost_agg(c) ELSE <<>>,
                            df_usage_agg(raw))]

\* what the run holds after its aggregation pass
Held ==
    [df_raw |-> df_raw, df_cost |-> df_cost, total_kwh |-> total_kwh,
     total_co2 |-> total_co2, tree_days |-> tree_days,
     total_cost_sek |-> total_cost_sek, df_model |-> df_model,
     df_project_summary |-> df_project_summary]

C17_ExportRowPerSample ==
    (pc = "done" /\ shown = "dashboard") =>
        /\ Len(df_export) = Len(df_raw)
        /\ \A r \in Rows(df_raw) :
              \E x \in Rows(df_export) :
                  /\ x.TimeStamp = r.TimeStamp /\ x.Account = r.Account
                  /\ x.Model = r.Model /\ x.Value = r.Value
                  /\ x.kWh = r.kWh /\ x.Carbon_g = r.Carbon_g

\* C17: what PowerBI.py exports: one row per (TimeStamp, Account, Model,
\* Type) with the sums over the samples of that key, so the metric of a
\* sample is lost and the table keeps the totals
C17_ExportRowPerKey ==
    (pc = "done" /\ shown = "dashboard") =>
        /\ Len(df_export) =
              Cardinality({<<r.TimeStamp, r.Account, r.Model, r.Type>> : r \in Rows(df_raw)})
        /\ SumSeq(Column(df_export, "Carbon_g")) = total_co2
        /\ SumSeq(Column(df_export, "Value")) = SumSeq(Column(df_raw, "Value"))


\* C18 (as claimed): at the end of a run, in either mode and whatever the
\* debug box, the error of a failed cost fetch and the error of every
\* account whose metrics fetch raised are among the messages shown.
C18_FailuresShown ==
    pc = "done" =>
        /\ cost_error # None => cost_error \in messages
        /\ Range(errors) \subseteq messages

\* C18: what the program does: the errors are shown only inside the Logs
\* expander, that is with the debug box ticked (never in Manual Input) and a
\* discovery log or a metrics error to show
C18_FailuresShownInLogsOnly ==
    (pc = "done" /\ shown # "exception") =>
        /\ (cost_error # None /\ cost_error \in messages) =>
              (show_debug /\ mode = "Auto-Discovery")
        /\ (errors # <<>> /\ Range(errors) \subseteq messages) =>
              (show_debug /\ mode = "Auto-Discovery")
        /\ (show_debug /\ debug_logs # <<>>) =>
              /\ Range(errors) \subseteq messages
              /\ cost_error # None => cost_error \in messages


\* the position of the run as a step number
Rank(p) ==
    CASE p = "start" -> 0
      [] p = "authed" -> 1
      [] p = "inventory" -> 2
      [] p = "metrics" -> 3
      [] p = "fetched" -> 4
      [] p = "done" -> 5

\* the discovery log lists the scan of the resources first, then the
\* accounts inspected for deployments
ScanThenInspect(logs) ==
    logs # <<>> =>
        /\ logs[1] = "Scanning Subscription for OpenAI accounts..."
        /\ \A i \in 2..Len(logs) : logs[i] # logs[1]

\* C19: in a run against Azure every step moves the run forward, and a step
\* starts only from the end of the step before it: authentication from the
\* start; the discovery (resources listed, then deployments per account)
\* and the manual inventory after the authentication, the discovery only
\* with a credential; the metrics fetch after the inventory and only with a
\* non-empty one; the cost query after the metrics fetch; the derived
\* columns and the rendering after both, in the last step.  In
\* Auto-Discovery an empty inventory leaves metrics and cost unfetched.
C19_StepsInOrder ==
    [][ /\ Rank(pc') > Rank(pc)
        /\ credential' # credential => (pc = "start" /\ pc' \in {"authed", "fetched"})
        /\ pc' = "authed" => (pc = "start" /\ credential' # "unset")
        /\ final_inventory' # final_inventory =>
              (pc = "authed" /\ (mode = "Auto-Discovery" => credential = "ok"))
        /\ debug_logs' # debug_logs =>
              (pc = "authed" /\ ScanThenInspect(debug_logs')
               /\ Len(debug_logs') = 1 + Len(dept_responses'))
        /\ pc' = "inventory" => (pc = "authed" /\ final_inventory' # <<>>)
        /\ pc' = "metrics" => (pc = "inventory" /\ final_inventory # <<>>)
        /\ (df_raw' # df_raw \/ errors' # errors) =>
              (pc \in {"inventory", "fetched"} /\ final_inventory # <<>>)
        /\ cost_response' # cost_response =>
              (pc = "metrics" /\ pc' = "fetched" /\ final_inventory # <<>>)
        /\ (pc = "fetched" /\ df_raw' # df_raw) =>
              (pc' = "done" /\ shown' = "dashboard")
        /\ shown' # shown => pc' = "done"
        /\ (mode = "Auto-Discovery" /\ pc' = "done" /\ final_inventory = <<>>) =>
              (df_raw' = <<>> /\ cost_response' = NoAnswer /\ errors' = <<>>)
      ]_vars

\* C19 witness: an Auto-Discovery run that went through every step
C19_Witness ==
    /\ pc = "done"
    /\ mode = "Auto-Discovery"
    /\ credential = "ok"
    /\ Len(debug_logs) >= 2
    /\ df_raw # <<>>
    /\ cost_response.status_code = 200
    /\ df_cost # <<>>
    /\ shown = "dashboard"


\* the inventory entries of the i-th account inspected
EntriesOfInspected(i) ==
    SelectSeq(final_inventory,
              LAMBDA e : "Inspecting account: " \o e.name = debug_logs[i + 1])

\* the items of a body up to the first one that cannot be parsed
Parsable(value) ==
    LET bad == {k \in 1..Len(value) : value[k].properties_null}
    IN  IF bad = {} THEN value
        ELSE SubSeq(value, 1, (CHOOSE k \in bad : \A j \in bad : k <= j) - 1)

\* the deployments an answer lists: none when the call raised or answered
\* with a status other than 200
Listed(answer) ==
    IF answer.raised \/ answer.status_code # 200 THEN <<>>
    ELSE Parsable(answer.value)

IsPlaceholderEntry(e) ==
    /\ e.deployment_name = "All Models (Aggregated)"
    /\ e.model_name = s_unknown
    /\ e.type = "text"

\* C20: after the discovery every account inspected has at least one
\* inventory entry.  An account whose deployments call raised, answered with
\* a status other than 200 or listed nothing has exactly one entry, the
\* placeholder "All Models (Aggregated)" / "unknown" / text; an account
\* whose call listed deployments has exactly one entry per deployment, in
\* the order listed and under the listed names, and no placeholder.
C20_EveryAccountInInventory ==
    /\ dept_responses # <<>> => Len(debug_logs) = 1 + Len(dept_responses)
    /\ \A i \in 1..Len(dept_responses) :
          LET entries == EntriesOfInspected(i)
              listed  == Listed(dept_responses[i])
          IN  /\ Len(entries) >= 1
              /\ listed = <<>> =>
                    (Len(entries) = 1 /\ IsPlaceholderEntry(entries[1]))
              /\ listed # <<>> =>
                    /\ Len(entries) = Len(listed)
                    /\ \A k \in 1..Len(listed) :
                          /\ entries[k].deployment_name = listed[k].name
                          /\ listed[k].has_model =>
                                entries[k].model_name = listed[k].model
                          /\ entries[k].deployment_name # "All Models (Aggregated)"
    /\ \A k \in 1..Len(final_inventory) :
          \E i \in 1..Len(dept_responses) :
              "Inspecting account: " \o final_inventory[k].name = debug_logs[i + 1]

\* C20 witness: two accounts inspected, the deployments call of one failed
\* (it has the placeholder), that of the other listed two deployments
C20_Witness ==
    /\ Len(dept_responses) = 2
    /\ \E i, j \in 1..2 :
          /\ dept_responses[i].raised \/ dept_responses[i].status_code # 200
          /\ IsPlaceholderEntry(EntriesOfInspected(i)[1])
          /\ Len(Listed(dept_responses[j])) = 2
          /\ Len(EntriesOfInspected(j)) = 2


\* the first value of a chain that is neither null nor empty, None if none
RECURSIVE FirstNonEmpty(_)
FirstNonEmpty(chain) ==
    IF chain = <<>> THEN None
    ELSE IF Truthy(Head(chain)) THEN Head(chain)
    ELSE FirstNonEmpty(Tail(chain))

\* every usage record of the account of entry e carries the label of e
SameLabel(e) ==
    \A k \in 1..Len(df_raw) :
        df_raw[k].ResourceId = e.id => df_raw[k].Project = e.project

C21_LabelFromTagsOrGroup ==
    \A i \in 1..Len(final_inventory) :
        LET e == final_inventory[i]
            chain == <<e.tags.DigitalProduct, e.tags.Project,
                       e.tags.Application, Split(e.id)[5]>>
        IN  /\ e.project = (IF FirstNonEmpty(chain) = None THEN ""
                            ELSE FirstNonEmpty(chain))
            /\ SameLabel(e)


\* C22: whenever the cost fetch returned an error message (403, another
\* status, an exception at any point, also while a row is parsed), the cost
\* table it returned is empty.
C22_NoPartialCostTable ==
    cost_error # None => df_cost = <<>>

\* what the code does: with an error message the table holds the rows
\* parsed before the exception, none unless the status was 200
C22_CostTableUpToFailure ==
    (cost_error # None /\ pc = "fetched") =>
        /\ Len(df_cost) < Len(cost_response.rows) \/ cost_response.rows = <<>>
        /\ cost_response.status_code # 200 => df_cost = <<>>
        /\ cost_response.raised => df_cost = <<>>
        /\ \A i \in 1..Len(df_cost) :
              df_cost[i] = ParseCostRow(cost_response.columns, cost_response.rows[i])


\* two calls are the same request: same kind, same account, same deployment
SameRequest(a, b) ==
    a.kind = b.kind /\ a.account = b.account /\ a.deployment = b.deployment

\* C23: within one run no request is sent twice: the resource listing, the
\* deployments listing of an account, the metrics query of a deployment and
\* the cost query each appear at most once among the calls sent, so a call
\* that failed is not sent again.
C23_NoRetries ==
    \A i, j \in 1..Len(requests) :
        i < j => ~SameRequest(requests[i], requests[j])

\* C23 witness: a run in which a deployments listing, a metrics query and
\* the cost query failed
C23_Witness ==
    /\ pc = "fetched"
    /\ \E i \in 1..Len(requests) :
          requests[i].kind = "deployments" /\ ~requests[i].ok
    /\ \E i \in 1..Len(requests) :
          requests[i].kind = "metrics" /\ ~requests[i].ok
    /\ \E i \in 1..Len(requests) :
          requests[i].kind = "cost" /\ ~requests[i].ok


\* the metrics calls sent for account a
MetricRequestsOf(a) ==
    SelectSeq(requests, LAMBDA r : r.kind = "metrics" /\ r.account = a)

\* the metrics fetch ran with a credential
MetricsFetched ==
    credential = "ok" /\ pc \in {"metrics", "fetched", "done"}

\* C24: after the metrics fetch, whether or not a call raised, every
\* account of the inventory was visited once (the query of its first
\* deployment was sent exactly once), the progress counter equals the
\* number of distinct accounts, and every usage row returned comes from a
\* call that answered, those of the accounts other than the failing one
\* included.
C24_EveryAccountVisited ==
    MetricsFetched =>
        /\ \A a \in Range(GroupedIds(final_inventory)) :
              LET first == CHOOSE i \in 1..Len(final_inventory) :
                              /\ final_inventory[i].id = a
                              /\ \A j \in 1..(i - 1) : final_inventory[j].id # a
                  sent == MetricRequestsOf(a)
              IN  /\ sent # <<>>
                  /\ sent[1].deployment = final_inventory[first].deployment_name
                  /\ \A k \in 2..Len(sent) : sent[k].deployment # sent[1].deployment
        /\ current_step = Len(GroupedIds(final_inventory))
        /\ \A k \in 1..Len(df_raw) :
              \E i \in 1..Len(requests) :
                  /\ requests[i].kind = "metrics" /\ requests[i].ok
                  /\ requests[i].account = df_raw[k].ResourceId
                  /\ requests[i].deployment = df_raw[k].Deployment

\* C24 witness: the query of one account raised, the other account was
\* queried after it and its rows were returned
C24_Witness ==
    /\ MetricsFetched
    /\ Len(GroupedIds(final_inventory)) = 2
    /\ \E i, j \in 1..Len(requests) :
          /\ i < j
          /\ requests[i].kind = "metrics" /\ ~requests[i].ok
          /\ requests[j].kind = "metrics" /\ requests[j].ok
          /\ requests[j].account # requests[i].account
          /\ \E k \in 1..Len(df_raw) : df_raw[k].ResourceId = requests[j].account


\* the inventory entries of account a, in inventory order
DeploymentsOf(a) == SelectSeq(final_inventory, LAMBDA e : e.id = a)

\* C25: after the metrics fetch every deployment of the inventory has had
\* its metrics query sent, also the deployments that follow, in the same
\* account, one whose query raised.
C25_EveryDeploymentQueried ==
    MetricsFetched =>
        \A i \in 1..Len(final_inventory) :
            \E k \in 1..Len(requests) :
                /\ requests[k].kind = "metrics"
                /\ requests[k].account = final_inventory[i].id
                /\ requests[k].deployment = final_inventory[i].deployment_name

\* what the code does: the queries of an account are sent in inventory
\* order and end with the first one that raises
C25_QueriedUpToFailure ==
    MetricsFetched =>
        \A a \in Range(GroupedIds(final_inventory)) :
            LET sent == MetricRequestsOf(a)
                all  == DeploymentsOf(a)
            IN  /\ Len(sent) <= Len(all)
                /\ \A k \in 1..Len(sent) :
                      /\ sent[k].deployment = all[k].deployment_name
                      /\ k < Len(sent) => sent[k].ok
                /\ Len(sent) < Len(all) => ~sent[Len(sent)].ok

\* the error strings the fetch can record for the account with id a
ErrorsFor(a) ==
    {"Error " \o Split(a)[Len(Split(a))] \o ": " \o t : t \in ExceptionTexts}

\* C26: after the metrics fetch the error list has an entry for an account
\* if and only if a metrics query of that account raised.
C26_ErrorPerFailedAccount ==
    MetricsFetched =>
        \A a \in Range(GroupedIds(final_inventory)) :
            (\E k \in 1..Len(errors) : errors[k] \in ErrorsFor(a))
            <=> (\E k \in 1..Len(MetricRequestsOf(a)) : ~MetricRequestsOf(a)[k].ok)

\* what the code does: an entry only for an account whose query raised, at
\* most one per account, and none when the text holds "BadRequest"
C26_ErrorOnlyForFailedAccount ==
    MetricsFetched =>
        /\ \A a \in Range(GroupedIds(final_inventory)) :
              /\ (\E k \in 1..Len(errors) : errors[k] \in ErrorsFor(a))
                    => (\E k \in 1..Len(MetricRequestsOf(a)) : ~MetricRequestsOf(a)[k].ok)
              /\ Cardinality({k \in 1..Len(errors) : errors[k] \in ErrorsFor(a)}) <= 1
        /\ \A k \in 1..Len(errors) :
              \A a \in Range(GroupedIds(final_inventory)) :
                  errors[k] # "Error " \o Split(a)[Len(Split(a))] \o ": BadRequest"


\* fetch_detailed_metrics or fetch_actual_costs has been called in this run
FetchInvoked ==
    \/ pc = "metrics"
    \/ shown = "exception"
    \/ cost_response # NoAnswer

\* only the authentication attempts have been sent
OnlyAuthSent ==
    \A i \in 1..Len(requests) : requests[i].kind \in {"silent", "interactive"}

\* C27: in every mode, when get_azure_credentials returned None the run
\* calls neither the metrics fetch nor the cost fetch and sends no
\* resource, metrics or cost request.
C27_NoFetchWithoutCredential ==
    credential = None => (~FetchInvoked /\ OnlyAuthSent)

\* what the code does: only Auto-Discovery stops at a missing credential
C27_AutoDiscoveryNeedsCredential ==
    (credential = None /\ mode = "Auto-Discovery") =>
        (~FetchInvoked /\ OnlyAuthSent /\ final_inventory = <<>>)


\* the authentication attempts among the calls sent
AuthAttempts ==
    SelectSeq(requests, LAMBDA r : r.kind \in {"silent", "interactive"})

C29_GroupingConservesTotals ==
    (pc = "done" /\ shown = "dashboard") =>
        /\ total_co2 = SumSeq(Column(df_raw, "Carbon_g"))
        /\ SumSeq(Column(df_model, "Carbon_g")) = total_co2
        /\ SumSeq(Column(df_project_summary, "Carbon_Total")) = total_co2
        /\ SumSeq(Column(df_project_summary, "Cost_SEK")) = total_cost_sek
        /\ total_cost_sek = (IF df_cost = <<>> THEN 0
                             ELSE SumSeq(Column(df_cost, "CostSEK")))

\* C29 witness: a dashboard with two models, a project that has only cost
\* and a project that has only usage
C29_Witness ==
    /\ pc = "done" /\ shown = "dashboard"
    /\ Len(df_model) >= 2
    /\ total_co2 > 0 /\ total_cost_sek > 0
    /\ \E i, j \in 1..Len(df_project_summary) :
          /\ df_project_summary[i].Carbon_Total = 0
          /\ df_project_summary[i].Cost_SEK > 0
          /\ df_project_summary[j].Carbon_Total > 0
          /\ df_project_summary[j].Cost_SEK = 0

=============================================================================
